---- MODULE Spec2Model ----
(***************************************************************************)
(* Model of the blueprint generation pipeline of architect-blueprint:      *)
(* BlueprintGenerator.generate_blueprint_stream / generate_blueprint       *)
(* (src/src/services/blueprint_generator.py) driving the StreamingHandler  *)
(* progress tracker (src/src/services/streaming_handler.py).               *)
(*                                                                         *)
(* A caller (task) invokes the async generator on a BlueprintGenerator.    *)
(* The generator is suspended at every yield and at every awaited model    *)
(* call; one action of the model is the code executed between two such     *)
(* suspension points.                                                      *)
(***************************************************************************)
EXTENDS Integers, Sequences, FiniteSets, TLC

\* ------------------------------------------------------------------------
\* Bounds
\* ------------------------------------------------------------------------

\* number of pipeline invocations one caller makes, one after the other
MaxRuns == 2

\* number of times control passes from one caller's generator to another's
\* while invocations interleave
MaxSwitches == 2

\* callers that may drive a pipeline run
Tasks == {"A", "B"}

\* BlueprintGenerator instances
Generators == {"g1", "g2"}

\* ------------------------------------------------------------------------
\* Strings.  Python str operations used by the code (lower, upper, `in`,
\* slicing) work on characters, so every string the code inspects has its
\* characters listed here.
\* ------------------------------------------------------------------------

Chars ==
    ("Requirements Analysis" :> <<"R","e","q","u","i","r","e","m","e","n","t","s"," ","A","n","a","l","y","s","i","s">>)
 @@ ("Database Schema" :> <<"D","a","t","a","b","a","s","e"," ","S","c","h","e","m","a">>)
 @@ ("API Design" :> <<"A","P","I"," ","D","e","s","i","g","n">>)
 @@ ("Frontend Architecture" :> <<"F","r","o","n","t","e","n","d"," ","A","r","c","h","i","t","e","c","t","u","r","e">>)
 @@ ("Deployment Plan" :> <<"D","e","p","l","o","y","m","e","n","t"," ","P","l","a","n">>)
 @@ ("Complete" :> <<"C","o","m","p","l","e","t","e">>)
 @@ ("Error" :> <<"E","r","r","o","r">>)
 @@ ("low" :> <<"l","o","w">>)
 @@ ("medium" :> <<"m","e","d","i","u","m">>)
 @@ ("high" :> <<"h","i","g","h">>)
 @@ ("HIGH" :> <<"H","I","G","H">>)
 @@ ("extreme" :> <<"e","x","t","r","e","m","e">>)
 @@ ("aws" :> <<"a","w","s">>)
 @@ ("vercel" :> <<"v","e","r","c","e","l">>)
 @@ ("deepseek" :> <<"d","e","e","p","s","e","e","k">>)
 @@ ("openai" :> <<"o","p","e","n","a","i">>)
 @@ ("kimi" :> <<"k","i","m","i">>)
 @@ ("groq" :> <<"g","r","o","q">>)
 @@ ("JWT access and refresh tokens with rotation" :> <<"J","W","T"," ","a","c","c","e","s","s"," ","a","n","d"," ","r","e","f","r","e","s","h"," ","t","o","k","e","n","s"," ","w","i","t","h"," ","r","o","t","a","t","i","o","n">>)
 @@ ("CloudWatch metrics" :> <<"C","l","o","u","d","W","a","t","c","h"," ","m","e","t","r","i","c","s">>)
 @@ ("Low" :> <<"L","o","w">>)
 @@ ("LOW" :> <<"L","O","W">>)
 @@ ("Medium" :> <<"M","e","d","i","u","m">>)
 @@ ("MEDIUM" :> <<"M","E","D","I","U","M">>)
 @@ ("High" :> <<"H","i","g","h">>)
 @@ ("" :> <<>>)
 @@ ("high complexity" :> <<"h","i","g","h"," ","c","o","m","p","l","e","x","i","t","y">>)
 @@ ("6-8 weeks" :> <<"6","-","8"," ","w","e","e","k","s">>)
 @@ ("3-4 months" :> <<"3","-","4"," ","m","o","n","t","h","s">>)
 @@ ("4-6 months" :> <<"4","-","6"," ","m","o","n","t","h","s">>)
 @@ ("6-8 weeks for MVP" :> <<"6","-","8"," ","w","e","e","k","s"," ","f","o","r"," ","M","V","P">>)
 @@ ("3-4 months for MVP" :> <<"3","-","4"," ","m","o","n","t","h","s"," ","f","o","r"," ","M","V","P">>)
 @@ ("4-6 months for MVP" :> <<"4","-","6"," ","m","o","n","t","h","s"," ","f","o","r"," ","M","V","P">>)
 @@ ("A CRM app" :> <<"A"," ","C","R","M"," ","a","p","p">>)
 @@ ("A CRM tool" :> <<"A"," ","C","R","M"," ","t","o","o","l">>)
 @@ (" A CRM app" :> <<" ","A"," ","C","R","M"," ","a","p","p">>)
 @@ ("          " :> <<" "," "," "," "," "," "," "," "," "," ">>)
 @@ ("database" :> <<"d","a","t","a","b","a","s","e">>)
 @@ ("api" :> <<"a","p","i">>)
 @@ ("frontend" :> <<"f","r","o","n","t","e","n","d">>)
 @@ ("deployment" :> <<"d","e","p","l","o","y","m","e","n","t">>)
 @@ ("graph" :> <<"g","r","a","p","h">>)
 @@ ("erdiagram" :> <<"e","r","d","i","a","g","r","a","m">>)
 @@ ("sequencediagram" :> <<"s","e","q","u","e","n","c","e","d","i","a","g","r","a","m">>)
 @@ ("flowchart" :> <<"f","l","o","w","c","h","a","r","t">>)
 @@ ("classDiagram" :> <<"c","l","a","s","s","D","i","a","g","r","a","m">>)
 @@ ("stateDiagram" :> <<"s","t","a","t","e","D","i","a","g","r","a","m">>)
 @@ ("erDiagram" :> <<"e","r","D","i","a","g","r","a","m">>)
 @@ ("sequenceDiagram" :> <<"s","e","q","u","e","n","c","e","D","i","a","g","r","a","m">>)
 @@ ("graph TD" :> <<"g","r","a","p","h"," ","T","D">>)
 @@ ("FLOWCHART LR" :> <<"F","L","O","W","C","H","A","R","T"," ","L","R">>)
 @@ ("stateDiagram-v2" :> <<"s","t","a","t","e","D","i","a","g","r","a","m","-","v","2">>)
 @@ ("classdiagram" :> <<"c","l","a","s","s","d","i","a","g","r","a","m">>)
 @@ ("pie" :> <<"p","i","e">>)

UpperLetters ==
    <<"A","B","C","D","E","F","G","H","I","J","K","L","M",
      "N","O","P","Q","R","S","T","U","V","W","X","Y","Z">>

LowerLetters ==
    <<"a","b","c","d","e","f","g","h","i","j","k","l","m",
      "n","o","p","q","r","s","t","u","v","w","x","y","z">>

\* str.lower() on a character sequence
lower(s) ==
    [i \in 1..Len(s) |->
        IF \E k \in 1..Len(UpperLetters) : UpperLetters[k] = s[i]
        THEN LowerLetters[CHOOSE k \in 1..Len(UpperLetters) : UpperLetters[k] = s[i]]
        ELSE s[i]]

\* str.upper() on a character sequence
upper(s) ==
    [i \in 1..Len(s) |->
        IF \E k \in 1..Len(LowerLetters) : LowerLetters[k] = s[i]
        THEN UpperLetters[CHOOSE k \in 1..Len(LowerLetters) : LowerLetters[k] = s[i]]
        ELSE s[i]]

\* Python `needle in hay` for strings
Contains(needle, hay) ==
    \E i \in 0..(Len(hay) - Len(needle)) :
        SubSeq(hay, i + 1, i + Len(needle)) = needle

\* Python s[:n]
Prefix(s, n) == SubSeq(s, 1, IF Len(s) < n THEN Len(s) ELSE n)

\* A character of a text is a string: an ASCII character is the string of
\* that one character, a character outside ASCII is the string "U+" followed
\* by the four hexadecimal digits of its code point ("U+00E9" is e with
\* acute, one character of the text).  A text is the sequence of its
\* characters, so Len counts characters as len() does.

\* the ASCII whitespace characters that have no escape in a string: U+000B
\* (line tabulation) and U+001C..U+001F (the four separators)
VT == ""
FS == ""
GS == ""
RS == ""
US == ""

\* U+0085 (next line), U+00A0 (no-break space), U+1680 (ogham space mark)
NEL == "U+0085"
NBSP == "U+00A0"
OGHAM == "U+1680"

\* U+2000..U+200A (en quad .. hair space), U+2028 (line separator), U+2029
\* (paragraph separator), U+202F (narrow no-break space), U+205F (medium
\* mathematical space), U+3000 (ideographic space)
UnicodeSpaces ==
    {"U+2000", "U+2001", "U+2002", "U+2003", "U+2004", "U+2005", "U+2006",
     "U+2007", "U+2008", "U+2009", "U+200A", "U+2028", "U+2029", "U+202F",
     "U+205F", "U+3000"}

\* the 29 characters str.strip() removes (those for which str.isspace() is
\* true)
Whitespace ==
    {" ", "\t", "\n", "\f", "\r", VT, FS, GS, RS, US, NEL, NBSP, OGHAM}
        \cup UnicodeSpaces

\* characters outside ASCII that str.strip() keeps: U+00E9 (e with acute),
\* U+200B (zero width space, not whitespace for str.isspace)
EACUTE == "U+00E9"
ZWSP == "U+200B"

\* str.strip() on a character sequence
strip(s) ==
    LET kept == {i \in 1..Len(s) : s[i] \notin Whitespace}
    IN IF kept = {} THEN <<>>
       ELSE SubSeq(s, CHOOSE i \in kept : \A j \in kept : i <= j,
                      CHOOSE i \in kept : \A j \in kept : j <= i)

\* dict.get(key, default) on a record
get(d, key, default) == IF key \in DOMAIN d THEN d[key] ELSE default

\* a call that returns value v, and a call that raises error e
Return(v) == [kind |-> "return", value |-> v]
Raise(e) == [kind |-> "raise", error |-> e]

\* the value None, as a payload and as a diagram
None == [kind |-> "None"]
NoDiagram == "None"

\* ------------------------------------------------------------------------
\* StreamingHandler (src/src/services/streaming_handler.py)
\* ------------------------------------------------------------------------

PHASES ==
    <<"Requirements Analysis", "Database Schema", "API Design",
      "Frontend Architecture", "Deployment Plan">>

\* StreamingHandler.__init__
StreamingHandlerInit == [current_phase_index |-> 0, updates |-> <<>>]

\* reset() that forgets to clear the update history
reset_KeepsUpdates(h) == [current_phase_index |-> 0, updates |-> h.updates]

\* StreamingHandler.reset
reset(h) == [current_phase_index |-> 0, updates |-> <<>>]

\* the phase arguments create_update is called with
PhaseArguments ==
    {"Requirements Analysis", "Database Schema", "API Design",
     "Frontend Architecture", "Deployment Plan", "Complete", "Error"}

\* a matcher that compares only the first character of the lowercased names
MatchingPhases_FirstLetter(phase) ==
    {idx \in 0..(Len(PHASES) - 1) :
        lower(Chars[PHASES[idx + 1]])[1] = lower(Chars[phase])[1]}

\* the indexes idx (zero-based) of the PHASES entries whose lowercased name
\* occurs in the lowercased phase argument
MatchingPhases(phase) ==
    {idx \in 0..(Len(PHASES) - 1) :
        Contains(lower(Chars[PHASES[idx + 1]]), lower(Chars[phase]))}

\* the loop of create_update: the first matching entry, or -1 when the loop
\* ends without a match
FirstMatch(phase) ==
    LET matches == MatchingPhases(phase)
    IN IF matches = {} THEN -1
       ELSE CHOOSE idx \in matches : \A other \in matches : idx <= other

\* FirstMatch, evaluated once for every phase argument
FirstMatchOf == [phase \in PhaseArguments |-> FirstMatch(phase)]

\* progress without the increment for a completed update
Progress_NoIncrement(current_phase_index, status) ==
    (current_phase_index * 100) \div Len(PHASES)

\* progress = (current_phase_index / len(PHASES)) * 100, and with the index
\* plus one when status is "completed".  The code computes it in floating
\* point; for the indexes 0..5 the results are exactly 0.0, 20.0, ..., 100.0.
Progress(current_phase_index, status) ==
    IF status = "completed"
    THEN ((current_phase_index + 1) * 100) \div Len(PHASES)
    ELSE (current_phase_index * 100) \div Len(PHASES)

\* create_update that sets the current index to 0 when no entry matches
create_update_UnmatchedResets(h, phase, reasoning, diagram, data, status) ==
    LET match == FirstMatchOf[phase]
        phase_index == IF match >= 0 THEN match ELSE 0
        update == [phase |-> phase,
                   phase_index |-> phase_index,
                   reasoning |-> reasoning,
                   progress |-> Progress(phase_index, status),
                   diagram |-> diagram,
                   data |-> data,
                   status |-> status]
    IN [current_phase_index |-> phase_index,
        updates |-> Append(h.updates, update)]

\* StreamingHandler.create_update: the handler after the call; the update
\* the call returns is the last element of its updates
create_update(h, phase, reasoning, diagram, data, status) ==
    LET match == FirstMatchOf[phase]
        phase_index == IF match >= 0 THEN match ELSE 0
        current == IF match >= 0 THEN match ELSE h.current_phase_index
        update == [phase |-> phase,
                   phase_index |-> phase_index,
                   reasoning |-> reasoning,
                   progress |-> Progress(current, status),
                   diagram |-> diagram,
                   data |-> data,
                   status |-> status]
    IN [current_phase_index |-> current,
        updates |-> Append(h.updates, update)]

\* the update returned by the create_update call that produced h
LastUpdate(h) == h.updates[Len(h.updates)]

\* a percentage that counts the current stage as done
get_progress_percentage_Completed(h) ==
    ((h.current_phase_index + 1) * 100) \div Len(PHASES)

\* StreamingHandler.get_progress_percentage
get_progress_percentage(h) == (h.current_phase_index * 100) \div Len(PHASES)

\* StreamingHandler.get_phase_status
get_phase_status(h, phase_index) ==
    IF phase_index < h.current_phase_index THEN "completed"
    ELSE IF phase_index = h.current_phase_index THEN "in_progress"
    ELSE "pending"

\* StreamingHandler.get_phase_emoji (the emoji are given by their names)
get_phase_emoji(h, phase_index) ==
    LET status == get_phase_status(h, phase_index)
    IN IF status = "completed" THEN "check mark"
       ELSE IF status = "in_progress" THEN "arrows"
       ELSE "pause"

\* StreamingHandler.get_phase_timeline: the lines it joins
get_phase_timeline(h) ==
    [n \in 1..Len(PHASES) |->
        [emoji |-> get_phase_emoji(h, n - 1), phase |-> PHASES[n]]]

\* ------------------------------------------------------------------------
\* Detail level configuration (src/src/config/detail_levels.py)
\* ------------------------------------------------------------------------

\* the table as the module defines it
DETAIL_LEVEL_CONFIGS ==
    ("high_level" :>
        [description |-> "High-level overview with key components",
         database |-> [max_tables |-> 10,
                       include_indexes |-> FALSE,
                       include_constraints |-> "primary_key_only",
                       field_descriptions |-> "brief"],
         api |-> [max_endpoints |-> 10,
                  include_request_body_schema |-> FALSE,
                  include_error_responses |-> FALSE,
                  include_parameters |-> "path_only"],
         frontend |-> [max_components |-> 8,
                       component_detail |-> "high_level",
                       include_props |-> FALSE,
                       include_state |-> FALSE,
                       include_dependencies |-> FALSE],
         deployment |-> [detail |-> "minimal",
                         include_cost_estimate |-> FALSE,
                         include_security_measures |-> "basic",
                         include_monitoring |-> "basic"]])
 @@ ("detailed" :>
        [description |-> "Detailed specification with comprehensive information",
         database |-> [max_tables |-> 20,
                       include_indexes |-> TRUE,
                       include_constraints |-> "all",
                       field_descriptions |-> "detailed"],
         api |-> [max_endpoints |-> 30,
                  include_request_body_schema |-> TRUE,
                  include_error_responses |-> TRUE,
                  include_parameters |-> "all"],
         frontend |-> [max_components |-> 20,
                       component_detail |-> "detailed",
                       include_props |-> TRUE,
                       include_state |-> TRUE,
                       include_dependencies |-> TRUE],
         deployment |-> [detail |-> "detailed",
                         include_cost_estimate |-> TRUE,
                         include_security_measures |-> "comprehensive",
                         include_monitoring |-> "detailed"]])
 @@ ("production_ready" :>
        [description |-> "Production-ready with security, monitoring, and scalability",
         database |-> [max_tables |-> 30,
                       include_indexes |-> TRUE,
                       include_constraints |-> "all",
                       field_descriptions |-> "comprehensive",
                       include_partitioning |-> TRUE,
                       include_replication |-> TRUE],
         api |-> [max_endpoints |-> 50,
                  include_request_body_schema |-> TRUE,
                  include_error_responses |-> TRUE,
                  include_parameters |-> "all",
                  include_rate_limiting |-> TRUE,
                  include_caching_strategy |-> TRUE,
                  include_versioning |-> TRUE],
         frontend |-> [max_components |-> 35,
                       component_detail |-> "comprehensive",
                       include_props |-> TRUE,
                       include_state |-> TRUE,
                       include_dependencies |-> TRUE,
                       include_performance_optimization |-> TRUE,
                       include_error_boundaries |-> TRUE,
                       include_testing_strategy |-> TRUE],
         deployment |-> [detail |-> "production_grade",
                         include_cost_estimate |-> TRUE,
                         include_security_measures |-> "enterprise",
                         include_monitoring |-> "comprehensive",
                         include_disaster_recovery |-> TRUE,
                         include_compliance |-> TRUE,
                         include_scalability_plan |-> TRUE,
                         include_ci_cd_pipeline |-> TRUE]])

\* the keys of the table and of each of its entries, in insertion order
\* (the order list(d.keys()) gives)
DetailLevelKeys == <<"high_level", "detailed", "production_ready">>
ConfigKeys == <<"description", "database", "api", "frontend", "deployment">>

\* list(d.keys()) for a dict d whose keys were inserted in the given order
keys(d, order) == SelectSeq(order, LAMBDA k : k \in DOMAIN d)

\* the texts of the two ValueErrors of the module
UnknownDetailLevel == "Unknown detail level: {}. Must be one of {}"
UnknownComponent == "Unknown component: {}. Must be one of {}"
ConfigErrorTexts == {UnknownDetailLevel, UnknownComponent}

\* a coordinator that asks for the configuration under the name of the
\* stage's result field
StageComponent_ResultField(i) ==
    CASE i = 2 -> "database_schema"
      [] i = 3 -> "api_design"
      [] i = 4 -> "frontend_design"
      [] i = 5 -> "deployment_plan"

\* the component get_component_config is asked for at stage i
StageComponent(i) ==
    CASE i = 2 -> "database"
      [] i = 3 -> "api"
      [] i = 4 -> "frontend"
      [] i = 5 -> "deployment"

\* ------------------------------------------------------------------------
\* Input validation (src/src/models/input_models.py, src/src/ui/input_form.py)
\* ------------------------------------------------------------------------

\* the values of the DetailLevel enum
DetailLevel == {"high_level", "detailed", "production_ready"}

\* Field(min_length=...) of UserInput.business_idea
min_length == 10

\* the values of the DeploymentPlatform enum
DeploymentPlatform ==
    {"aws", "gcp", "azure", "digital_ocean", "heroku", "vercel", "render",
     "railway", "fly_io", "other"}

\* the errors pydantic finds in the arguments of UserInput, one per failing
\* field, in the order of the fields
UserInputErrors(business_idea, detail_level, deployment_platform) ==
    (IF Len(business_idea) < min_length
     THEN <<[loc |-> "business_idea", type |-> "string_too_short"]>>
     ELSE <<>>)
    \o (IF detail_level \notin DetailLevel
        THEN <<[loc |-> "detail_level", type |-> "enum"]>>
        ELSE <<>>)
    \o (IF deployment_platform \notin DeploymentPlatform
        THEN <<[loc |-> "deployment_platform", type |-> "enum"]>>
        ELSE <<>>)

\* the UserInput constructor: pydantic validates the length of the idea
\* text as given, and the detail level and the deployment platform against
\* their enums
UserInput(business_idea, detail_level, deployment_platform) ==
    IF UserInputErrors(business_idea, detail_level, deployment_platform)
           # <<>>
    THEN Raise([type |-> "ValidationError",
                errors |-> UserInputErrors(business_idea, detail_level,
                                           deployment_platform)])
    ELSE Return([kind |-> "UserInput",
                 business_idea |-> business_idea,
                 detail_level |-> detail_level,
                 deployment_platform |-> deployment_platform])

\* a form that measures and passes on the idea text as typed
render_input_form_NoStrip(business_idea, detail_level, deployment_platform) ==
    IF business_idea = <<>> \/ Len(business_idea) < 10
    THEN None
    ELSE UserInput(business_idea, detail_level, deployment_platform).value

\* render_input_form once the form is submitted: None (after st.error) when
\* the stripped idea text is too short, the UserInput of the stripped text
\* otherwise
render_input_form(business_idea, detail_level, deployment_platform) ==
    IF business_idea = <<>> \/ Len(strip(business_idea)) < 10
    THEN None
    ELSE UserInput(strip(business_idea), detail_level,
                   deployment_platform).value

\* ------------------------------------------------------------------------
\* Inputs of a run: the user input and what the external model returns
\* ------------------------------------------------------------------------

\* validated UserInput values: detail_level and deployment_platform are
\* members of the DetailLevel and DeploymentPlatform enums
UserInputs ==
    {UserInput(Chars["A CRM tool"], d, p).value :
        d \in {"high_level"}, p \in {"aws"}}

\* user inputs built without validation (UserInput.model_construct), whose
\* detail level is not a DetailLevel: the plain str "enterprise", and the
\* member DeploymentPlatform.AWS, an enum member whose value names no tier
UnvalidatedInputs ==
    {[kind |-> "UserInput",
      business_idea |-> Chars["A CRM tool"],
      detail_level |-> "enterprise",
      detail_level_class |-> "str",
      deployment_platform |-> "aws"],
     [kind |-> "UserInput",
      business_idea |-> Chars["A CRM tool"],
      detail_level |-> "aws",
      detail_level_class |-> "DeploymentPlatform",
      deployment_platform |-> "aws"]}

\* how the caller consumes the run: iterating generate_blueprint_stream
\* itself, or through generate_blueprint
Modes == {"stream", "batch"}

\* what a failing call raises
Causes == {"timeout", "provider error"}

\* the values of the ProviderType enum
ProviderType == {"openai", "deepseek", "kimi", "groq"}

\* settings.DEFAULT_PROVIDER_STR
DEFAULT_PROVIDER_STR == "deepseek"

\* no provider argument (None)
NoProvider == "None"

\* BlueprintGenerator.__init__: provider or settings.get_default_provider()
BlueprintGenerator_provider(p) ==
    IF p = NoProvider THEN DEFAULT_PROVIDER_STR ELSE p

\* the provider argument each generator is constructed with: none, and
\* ProviderType.OPENAI
ConstructedWith == ("g1" :> NoProvider) @@ ("g2" :> "openai")

\* value.upper() of each member of ProviderType
ProviderUpperOf == [p \in ProviderType |-> upper(Chars[p])]

\* self.provider.value.upper() of a generator whose provider is p
ProviderUpper(p) == ProviderUpperOf[p]

\* structured outputs the external model may return for each stage
StageOutputs(i) ==
    CASE i = 1 -> {[kind |-> "RequirementsAnalysis",
                    complexity_assessment |-> c] : c \in {"low", "HIGH"}}
      [] i = 2 -> {[kind |-> "DatabaseSchema",
                    tables |-> <<"users", "projects", "tasks">>,
                    mermaid_diagram |-> "erDiagram"]}
      [] i = 3 -> {[kind |-> "APIDesign",
                    base_url |-> "/api/v1",
                    authentication_strategy |-> "JWT access and refresh tokens with rotation",
                    mermaid_diagram |-> "sequenceDiagram"]}
      [] i = 4 -> {[kind |-> "FrontendDesign",
                    framework |-> "React",
                    state_management |-> "context",
                    mermaid_diagram |-> "graph TD"]}
      [] i = 5 -> {[kind |-> "DeploymentPlan",
                    platform |-> "aws",
                    hosting_service |-> "ECS Fargate",
                    database_service |-> "RDS PostgreSQL",
                    monitoring_strategy |-> "CloudWatch metrics",
                    monitoring_tools |-> <<"CloudWatch", "Sentry", "Grafana">>,
                    mermaid_diagram |-> "graph TB"]}
      [] OTHER -> {}

\* outputs whose mermaid_diagram is the empty string, which the output
\* models accept (a required str field without a minimum length)
EmptyDiagramOutputs(i) ==
    IF i \in {2, 5}
    THEN {[out EXCEPT !.mermaid_diagram = ""] : out \in StageOutputs(i)}
    ELSE {}

\* ------------------------------------------------------------------------
\* BlueprintGenerator (src/src/services/blueprint_generator.py)
\* ------------------------------------------------------------------------

\* the phase argument of the create_update calls of stage i
StagePhase(i) ==
    CASE i = 1 -> "Requirements Analysis"
      [] i = 2 -> "Database Schema"
      [] i = 3 -> "API Design"
      [] i = 4 -> "Frontend Architecture"
      [] i = 5 -> "Deployment Plan"

NumStages == 5

\* settings.ORCHESTRATOR_CONFIG and settings.SPECIALIST_CONFIG
ORCHESTRATOR_CONFIG == [max_tokens |-> 4096, retries |-> 2]
SPECIALIST_CONFIG == [max_tokens |-> 4096, retries |-> 2]

\* the configuration of the agent of stage i
AgentConfig(i) == IF i = 1 THEN ORCHESTRATOR_CONFIG ELSE SPECIALIST_CONFIG

\* the output_type the agent of stage i is created with
OutputType(i) ==
    CASE i = 1 -> "RequirementsAnalysis"
      [] i = 2 -> "DatabaseSchema"
      [] i = 3 -> "APIDesign"
      [] i = 4 -> "FrontendDesign"
      [] i = 5 -> "DeploymentPlan"

\* ModelSettings(max_tokens=n)
ModelSettings(n) == [kind |-> "ModelSettings", max_tokens |-> n]

\* create_architect_agent, create_database_agent, create_api_agent,
\* create_frontend_agent, create_deployment_agent: Agent(model, output_type,
\* system_prompt, retries), with no model_settings
create_agent(i) ==
    [output_type |-> OutputType(i),
     retries |-> AgentConfig(i).retries,
     model_settings |-> None]

\* agent.run(prompt, model_settings): the request carries the output type of
\* the agent and the settings of the run, or those of the agent when the run
\* has none
run(agent, model_settings) ==
    [output_type |-> agent.output_type,
     model_settings |-> IF model_settings = None
                        THEN agent.model_settings
                        ELSE model_settings]

\* the request of the model call of stage i: agent.run(prompt)
StageRequest(i) == run(create_agent(i), None)

\* Formatted texts (f-strings) are records: the fixed text and the values
\* interpolated into it.

\* the reasoning of the in_progress event of stage i
StartReasoning(i, ui, p) ==
    CASE i = 1 -> [text |-> "Analyzing your business idea with {}...",
                   provider |-> ProviderUpper(p)]
      [] i = 2 -> [text |-> "Designing a normalized database schema with tables, relationships, and indexes..."]
      [] i = 3 -> [text |-> "Creating RESTful API endpoints based on the database schema and business requirements..."]
      [] i = 4 -> [text |-> "Designing frontend component hierarchy and state management strategy..."]
      [] i = 5 -> [text |-> "Creating infrastructure and deployment plan for {}...",
                   platform |-> upper(Chars[ui.deployment_platform])]

\* the summary text of the completed event of stage i, with the fields of
\* the stage output it interpolates
Summary(i, out) ==
    CASE i = 1 -> [text |-> "requirements_text",
                   complexity |-> out.complexity_assessment]
      [] i = 2 -> [text |-> "db_summary",
                   tables |-> Len(out.tables),
                   key_tables |-> Prefix(out.tables, 5)]
      [] i = 3 -> [text |-> "api_summary",
                   base_url |-> out.base_url,
                   authentication |-> out.authentication_strategy]
      [] i = 4 -> [text |-> "frontend_summary",
                   framework |-> out.framework,
                   state_management |-> out.state_management]
      [] i = 5 -> [text |-> "deployment_summary",
                   platform |-> out.platform,
                   database_service |-> out.database_service,
                   monitoring |-> out.monitoring_strategy]

\* a coordinator that passes a diagram only with the Database Schema event
StageDiagram_DatabaseOnly(i, out) ==
    IF i = 2 THEN out.mermaid_diagram ELSE NoDiagram

\* the diagram argument of the completed event of stage i
StageDiagram(i, out) == IF i = 1 THEN NoDiagram ELSE out.mermaid_diagram

\* ------------------------------------------------------------------------
\* Prompts (src/src/agents/prompts.py).  A prompt is its template and the
\* values interpolated into it.
\* ------------------------------------------------------------------------

\* BaseModel.model_dump_json: the JSON text of a stage output
model_dump_json(out) == [json |-> out]

\* the length of the slices of get_deployment_prompt
SummaryLength == 500

\* text[:n] of a JSON text: its first n characters
Slice(text, n) == [json |-> text.json, first |-> n]

detail_guidance ==
    [high_level |-> "Focus on core features only. Keep the analysis concise.",
     detailed |-> "Provide comprehensive analysis with all major features and considerations.",
     production_ready |-> "Provide exhaustive analysis including advanced features, security considerations, and scalability requirements."]

get_requirements_analysis_prompt(business_idea, detail_level) ==
    [text |-> "requirements analysis prompt",
     business_idea |-> business_idea,
     detail_level |-> detail_level,
     guidance |-> get(detail_guidance, detail_level, detail_guidance["detailed"])]

get_database_prompt(requirements, detail_config) ==
    [text |-> "database prompt",
     requirements |-> requirements,
     max_tables |-> get(detail_config, "max_tables", 15),
     include_indexes |-> get(detail_config, "include_indexes", TRUE),
     field_descriptions |-> get(detail_config, "field_descriptions", "detailed")]

\* an API prompt that leaves the database schema out
get_api_prompt_NoSchema(requirements, database_schema, detail_config) ==
    [text |-> "api prompt",
     requirements |-> requirements,
     max_endpoints |-> get(detail_config, "max_endpoints", 30),
     include_request_body_schema |->
         get(detail_config, "include_request_body_schema", TRUE),
     include_error_responses |->
         get(detail_config, "include_error_responses", TRUE)]

get_api_prompt(requirements, database_schema, detail_config) ==
    [text |-> "api prompt",
     requirements |-> requirements,
     database_schema |-> database_schema,
     max_endpoints |-> get(detail_config, "max_endpoints", 30),
     include_request_body_schema |->
         get(detail_config, "include_request_body_schema", TRUE),
     include_error_responses |->
         get(detail_config, "include_error_responses", TRUE)]

get_frontend_prompt(requirements, api_design, detail_config) ==
    [text |-> "frontend prompt",
     requirements |-> requirements,
     api_design |-> api_design,
     max_components |-> get(detail_config, "max_components", 20),
     include_props |-> get(detail_config, "include_props", TRUE),
     include_state |-> get(detail_config, "include_state", TRUE),
     component_detail |-> get(detail_config, "component_detail", "detailed")]

get_deployment_prompt(requirements, database_schema, api_design, frontend_design, platform, detail_config) ==
    [text |-> "deployment prompt",
     requirements |-> requirements,
     database_schema |-> Slice(database_schema, SummaryLength),
     api_design |-> Slice(api_design, SummaryLength),
     frontend_design |-> Slice(frontend_design, SummaryLength),
     platform |-> upper(Chars[platform]),
     detail |-> get(detail_config, "detail", "detailed"),
     include_cost_estimate |-> get(detail_config, "include_cost_estimate", TRUE),
     include_security_measures |->
         get(detail_config, "include_security_measures", "comprehensive"),
     include_monitoring |-> get(detail_config, "include_monitoring", "detailed")]

\* the prompt generate_blueprint_stream builds for stage i from the user
\* input, the outputs res of the earlier stages and the stage's
\* configuration
StagePrompt(i, ui, res, component_config) ==
    CASE i = 1 -> get_requirements_analysis_prompt(ui.business_idea,
                                                   ui.detail_level)
      [] i = 2 -> get_database_prompt(model_dump_json(res[1]),
                                      component_config)
      [] i = 3 -> get_api_prompt(model_dump_json(res[1]),
                                 model_dump_json(res[2]), component_config)
      [] i = 4 -> get_frontend_prompt(model_dump_json(res[1]),
                                      model_dump_json(res[3]),
                                      component_config)
      [] i = 5 -> get_deployment_prompt(model_dump_json(res[1]),
                                        model_dump_json(res[2]),
                                        model_dump_json(res[3]),
                                        model_dump_json(res[4]),
                                        ui.deployment_platform,
                                        component_config)

\* an error text that does not interpolate str(e)
ErrorReasoning_NoCause(cause, p) ==
    [text |-> "An error occurred with {} provider: {}",
     provider |-> ProviderUpper(p),
     cause |-> "unknown error"]

\* the reasoning of the error event
ErrorReasoning(cause, p) ==
    [text |-> "An error occurred with {} provider: {}",
     provider |-> ProviderUpper(p),
     cause |-> cause]

CompleteReasoning ==
    [text |-> "Blueprint generation complete! Your technical architecture is ready."]

\* a timeline lookup that compares the label as given
_estimate_timeline_CaseSensitive(complexity) ==
    LET key == Chars[complexity]
    IN IF key = Chars["low"] THEN "6-8 weeks for MVP"
       ELSE IF key = Chars["medium"] THEN "3-4 months for MVP"
       ELSE IF key = Chars["high"] THEN "4-6 months for MVP"
       ELSE "3-4 months for MVP"

\* BlueprintGenerator._estimate_timeline
_estimate_timeline(complexity) ==
    LET key == lower(Chars[complexity])
    IN IF key = Chars["low"] THEN "6-8 weeks for MVP"
       ELSE IF key = Chars["medium"] THEN "3-4 months for MVP"
       ELSE IF key = Chars["high"] THEN "4-6 months for MVP"
       ELSE "3-4 months for MVP"

implementation_recommendations ==
    <<"Start with MVP features to validate core functionality",
      "Implement authentication and user management first",
      "Set up CI/CD pipeline early in the development process",
      "Use feature flags for gradual rollout of new features",
      "Implement comprehensive logging and monitoring from day one">>

next_steps ==
    <<"Set up development environment and version control",
      "Initialize project with chosen technology stack",
      "Implement database schema and migrations",
      "Build authentication system",
      "Develop core API endpoints",
      "Create basic frontend components",
      "Set up deployment pipeline",
      "Configure monitoring and logging">>

\* a summary whose hosting entry is the hosting service of the plan
technology_stack_summary_HostingService(res) ==
    [frontend |-> res[4].framework,
     backend |-> "Node.js/Python (to be determined)",
     database |-> res[5].database_service,
     hosting |-> res[5].hosting_service,
     monitoring |-> IF res[5].monitoring_tools # <<>>
                    THEN Prefix(res[5].monitoring_tools, 2)
                    ELSE <<"TBD">>]

\* the technology_stack_summary argument; ", ".join(tools[:2]) is kept as
\* the list of the joined tools
technology_stack_summary(res) ==
    [frontend |-> res[4].framework,
     backend |-> "Node.js/Python (to be determined)",
     database |-> res[5].database_service,
     hosting |-> res[5].platform,
     monitoring |-> IF res[5].monitoring_tools # <<>>
                    THEN Prefix(res[5].monitoring_tools, 2)
                    ELSE <<"TBD">>]

\* the TechnicalBlueprint constructor call of generate_blueprint_stream, for
\* the stage results res and a given full_architecture_diagram (id and
\* created_at, a fresh uuid and the clock, are left out)
TechnicalBlueprint(ui, res, diagram) ==
    [kind |-> "TechnicalBlueprint",
     user_input |-> ui,
     requirements |-> res[1],
     database_schema |-> res[2],
     api_design |-> res[3],
     frontend_design |-> res[4],
     deployment_plan |-> res[5],
     full_architecture_diagram |-> diagram,
     implementation_recommendations |-> implementation_recommendations,
     next_steps |-> next_steps,
     estimated_timeline |-> _estimate_timeline(res[1].complexity_assessment),
     technology_stack_summary |-> technology_stack_summary(res)]

\* the empty string passed as the temporary full_architecture_diagram
EmptyDiagram == [text |-> ""]

\* a diagram builder that returns the diagram of the blueprint it is given
build_full_architecture_diagram_Unfilled(blueprint) ==
    blueprint.full_architecture_diagram

\* DiagramBuilder.build_full_architecture_diagram: the template with its
\* seven interpolated values
build_full_architecture_diagram(blueprint) ==
    [text |-> "graph TB",
     framework |-> blueprint.frontend_design.framework,
     state_mgmt |-> blueprint.frontend_design.state_management,
     api_base |-> blueprint.api_design.base_url,
     auth_strategy |->
         Prefix(Chars[blueprint.api_design.authentication_strategy], 30)
             \o <<".", ".", ".">>,
     database |-> Len(blueprint.database_schema.tables),
     platform |-> upper(Chars[blueprint.deployment_plan.platform]),
     monitoring |->
         Prefix(Chars[blueprint.deployment_plan.monitoring_strategy], 30)
             \o <<".", ".", ".">>]

\* a loop body that never picks up the payload
gb_consume_Never(blueprint, update) == blueprint

\* BlueprintGenerator.generate_blueprint: the body of its async-for loop
gb_consume(blueprint, update) ==
    IF update.status = "completed" /\ update.phase = "Complete"
    THEN update.data
    ELSE blueprint

\* BlueprintGenerator.generate_blueprint: what it does once the stream is
\* exhausted
gb_result(blueprint) ==
    IF blueprint = None
    THEN [kind |-> "raised", error |-> "Blueprint generation failed"]
    ELSE [kind |-> "returned", value |-> blueprint]

\* ------------------------------------------------------------------------
\* State
\* ------------------------------------------------------------------------

VARIABLES
    streaming_handler,  \* generator -> its StreamingHandler
    pc,                 \* task -> where its generator is suspended
    stage,              \* task -> number (1..5) of the stage the run is at
    gen,                \* task -> the BlueprintGenerator the run is on
    mode,               \* task -> "stream" or "batch"
    user_input,         \* task -> the UserInput of the run
    results,            \* task -> outputs of the stages completed so far
    exception,          \* task -> the exception caught by the handler
    events,             \* task -> the updates yielded to the caller so far
    calls,              \* task -> stages whose model call was issued
    constructed,        \* task -> TechnicalBlueprint objects constructed
    gb_blueprint,       \* task -> local `blueprint` of generate_blueprint
    outcome,            \* task -> how the invocation ended for the caller
    run_no,             \* task -> number of runs the caller has started
    running,            \* the task whose generator took the last step
    switches,           \* number of changes of `running` so far
    configs,            \* the module-level table DETAIL_LEVEL_CONFIGS
    detail_config,      \* task -> local `detail_config` of the run
    prompts,            \* task -> prompts of the model calls issued
    provider,           \* generator -> its provider (self.provider)
    session_state,      \* st.session_state of the application
    requests,           \* task -> requests of the model calls issued
    args,               \* the call a client of the modules makes
    ret                 \* what that call returned or raised

vars ==
    <<streaming_handler, pc, stage, gen, mode, user_input, results,
      exception, events, calls, constructed, gb_blueprint, outcome, run_no,
      running, switches, configs, detail_config, prompts, provider,
      session_state, requests, args, ret>>

\* a lookup that falls back to the detailed tier for an unknown level
get_detail_config_Default(detail_level) ==
    IF detail_level \notin DOMAIN configs
    THEN Return(configs["detailed"])
    ELSE Return(configs[detail_level])

\* get_detail_config
get_detail_config(detail_level) ==
    IF detail_level \notin DOMAIN configs
    THEN Raise([type |-> "ValueError",
                text |-> UnknownDetailLevel,
                value |-> detail_level,
                valid |-> keys(configs, DetailLevelKeys)])
    ELSE Return(configs[detail_level])

\* get_component_config
get_component_config(detail_level, component) ==
    LET config == get_detail_config(detail_level)
    IN IF config.kind = "raise" THEN config
       ELSE IF component \notin DOMAIN config.value
       THEN Raise([type |-> "ValueError",
                   text |-> UnknownComponent,
                   value |-> component,
                   valid |-> keys(config.value, ConfigKeys)])
       ELSE Return(config.value[component])

\* the text of the AttributeError of reading .value on a str
NoValueAttribute == "'str' object has no attribute 'value'"

\* user_input.detail_level.value: the value of an enum member; a plain str
\* has no such attribute
detail_level_value(ui) ==
    IF "detail_level_class" \in DOMAIN ui /\ ui.detail_level_class = "str"
    THEN Raise([type |-> "AttributeError", text |-> NoValueAttribute])
    ELSE Return(ui.detail_level)

\* the two statements of generate_blueprint_stream between reset() and the
\* try block: the detail level's value, then its configuration
resolve_detail_config(ui) ==
    IF detail_level_value(ui).kind = "raise"
    THEN detail_level_value(ui)
    ELSE get_detail_config(detail_level_value(ui).value)

\* ------------------------------------------------------------------------
\* DiagramBuilder validation (src/src/services/diagram_builder.py)
\* ------------------------------------------------------------------------

\* the list valid_types of validate_mermaid, as written
valid_types ==
    <<"graph", "erdiagram", "sequencediagram", "flowchart", "classDiagram",
      "stateDiagram">>

\* DiagramBuilder.validate_mermaid; diagram is None (NoDiagram) or a text
validate_mermaid(diagram) ==
    IF diagram = NoDiagram \/ diagram = "" \/ strip(Chars[diagram]) = <<>>
    THEN FALSE
    ELSE LET diagram_lower == lower(Chars[diagram])
         IN \E n \in 1..Len(valid_types) :
                Contains(Chars[valid_types[n]], diagram_lower)

\* the default fallback_text of get_diagram_with_fallback
fallback_text == "Diagram generation pending..."

\* DiagramBuilder.get_diagram_with_fallback: the diagram as it is, or the
\* fallback text inside a code fence
get_diagram_with_fallback(diagram) ==
    IF diagram # NoDiagram /\ diagram # "" /\ validate_mermaid(diagram)
    THEN [fenced |-> FALSE, text |-> diagram]
    ELSE [fenced |-> TRUE, text |-> fallback_text]

\* ------------------------------------------------------------------------
\* Application (src/app.py).  The session state is a record; a diagram slot
\* that holds None holds NoDiagram, and error_details holds None while the
\* key is not set.
\* ------------------------------------------------------------------------

\* the diagrams dictionary with its four slots empty
NoDiagrams ==
    [db |-> NoDiagram, api |-> NoDiagram, frontend |-> NoDiagram,
     deployment |-> NoDiagram]

\* the initialisation of the session state
SessionStateInit ==
    [blueprint |-> None,
     is_generating |-> FALSE,
     current_phase |-> "",
     reasoning_text |-> [text |-> ""],
     progress |-> 0,
     phase_timeline |-> <<>>,
     diagrams |-> NoDiagrams,
     error_details |-> None]

\* a reset that leaves the blueprint of the previous generation in place
main_reset_KeepsBlueprint(ss) ==
    [ss EXCEPT !.is_generating = TRUE,
               !.current_phase = "Initializing",
               !.reasoning_text = [text |-> "Starting blueprint generation..."],
               !.progress = 0,
               !.diagrams = NoDiagrams]

\* main(): the reset for a new generation
main_reset(ss) ==
    [ss EXCEPT !.blueprint = None,
               !.is_generating = TRUE,
               !.current_phase = "Initializing",
               !.reasoning_text = [text |-> "Starting blueprint generation..."],
               !.progress = 0,
               !.diagrams = NoDiagrams]

\* `if update.diagram:`
Truthy(diagram) == diagram # NoDiagram /\ diagram # ""

\* a chain that tests the phase as it is, without lower()
DiagramSlot_NoLower(phase) ==
    IF Contains(Chars["database"], Chars[phase]) THEN "db"
    ELSE IF Contains(Chars["api"], Chars[phase]) THEN "api"
    ELSE IF Contains(Chars["frontend"], Chars[phase]) THEN "frontend"
    ELSE IF Contains(Chars["deployment"], Chars[phase]) THEN "deployment"
    ELSE "none"

\* the if/elif chain of run_generation on update.phase.lower(): the slot of
\* the diagrams dictionary that is assigned, "none" when no branch is taken
DiagramSlot(phase) ==
    LET phase_lower == lower(Chars[phase])
    IN IF Contains(Chars["database"], phase_lower) THEN "db"
       ELSE IF Contains(Chars["api"], phase_lower) THEN "api"
       ELSE IF Contains(Chars["frontend"], phase_lower) THEN "frontend"
       ELSE IF Contains(Chars["deployment"], phase_lower) THEN "deployment"
       ELSE "none"

\* DiagramSlot, evaluated once for every phase argument
DiagramSlotOf == [phase \in PhaseArguments |-> DiagramSlot(phase)]

\* the body of the `async for` loop of run_generation on one update;
\* timeline is what get_phase_timeline() of the generator's tracker returns
run_generation_update(ss, update, timeline) ==
    LET shown == [ss EXCEPT !.current_phase = update.phase,
                            !.reasoning_text = update.reasoning,
                            !.progress = update.progress,
                            !.phase_timeline = timeline]
        slot == DiagramSlotOf[update.phase]
        routed == IF Truthy(update.diagram) /\ slot # "none"
                  THEN [shown EXCEPT !.diagrams[slot] = update.diagram]
                  ELSE shown
    IN IF update.status = "completed" /\ update.phase = "Complete"
       THEN [routed EXCEPT !.blueprint = update.data,
                           !.is_generating = FALSE]
       ELSE routed

\* the except clause of run_generation for the exception e
run_generation_except(ss, e) ==
    [ss EXCEPT !.is_generating = FALSE,
               !.current_phase = "Error",
               !.reasoning_text = [text |-> "Error: {}", error |-> e],
               !.error_details = [text |-> "Traceback", error |-> e]]

\* generate_blueprint_with_progress after asyncio.run has returned
generation_returns(ss) == [ss EXCEPT !.is_generating = FALSE]

NoInput == [kind |-> "None"]
NoOutcome == [kind |-> "running"]
NoException == "None"
NoConfig == [kind |-> "None"]
NoCall == [fn |-> "none"]
Pending == [kind |-> "pending"]

\* the modules are imported, the generators constructed, nothing is running
Constructed ==
    /\ configs = DETAIL_LEVEL_CONFIGS
    /\ detail_config = [t \in Tasks |-> NoConfig]
    /\ prompts = [t \in Tasks |-> <<>>]
    /\ provider = [g \in Generators |-> BlueprintGenerator_provider(ConstructedWith[g])]
    /\ session_state = SessionStateInit
    /\ requests = [t \in Tasks |-> <<>>]
    /\ ret = Pending
    /\ streaming_handler = [g \in Generators |-> StreamingHandlerInit]
    /\ pc = [t \in Tasks |-> "idle"]
    /\ stage = [t \in Tasks |-> 0]
    /\ gen = [t \in Tasks |-> CHOOSE g \in Generators : TRUE]
    /\ mode = [t \in Tasks |-> "stream"]
    /\ user_input = [t \in Tasks |-> NoInput]
    /\ results = [t \in Tasks |-> <<>>]
    /\ exception = [t \in Tasks |-> NoException]
    /\ events = [t \in Tasks |-> <<>>]
    /\ calls = [t \in Tasks |-> <<>>]
    /\ constructed = [t \in Tasks |-> <<>>]
    /\ gb_blueprint = [t \in Tasks |-> None]
    /\ outcome = [t \in Tasks |-> NoOutcome]
    /\ run_no = [t \in Tasks |-> 0]
    /\ running = "none"
    /\ switches = 0

Init == Constructed /\ args = NoCall

\* the generator of task t is between its first step and its end
InFlight(t) == pc[t] \notin {"idle", "done", "raised", "config_raised"}

\* The event loop resumes the generator of task t; control passes from one
\* caller's generator to another's at most MaxSwitches times.
Schedule(t) ==
    /\ running' = t
    /\ IF running \in {"none", t}
       THEN switches' = switches
       ELSE /\ switches < MaxSwitches
            /\ switches' = switches + 1

\* a yield on a tracker that all generators share (class-level state)
Yield_SharedHandler(t, g, m, h, prior, blueprint, phase, reasoning, diagram, data, status) ==
    LET shared == CHOOSE x \in Generators : TRUE
        base == IF prior = <<>> THEN reset(streaming_handler[shared])
                ELSE streaming_handler[shared]
        h2 == create_update(base, phase, reasoning, diagram, data, status)
    IN /\ streaming_handler' = [streaming_handler EXCEPT ![shared] = h2]
       /\ events' = [events EXCEPT ![t] = Append(prior, LastUpdate(h2))]
       /\ gb_blueprint' = [gb_blueprint EXCEPT ![t] =
              IF m = "batch" THEN gb_consume(blueprint, LastUpdate(h2))
              ELSE blueprint]
       /\ session_state' =
              IF m = "app"
              THEN run_generation_update(
                       IF prior = <<>> THEN main_reset(session_state)
                       ELSE session_state,
                       LastUpdate(h2), get_phase_timeline(h2))
              ELSE session_state

\* a yield of the generator of task t: create_update on handler state h of
\* generator g, the update handed to the caller, who runs on it the loop
\* body of generate_blueprint (batch mode) or of run_generation (in the
\* application, where main() has reset the session state before the first
\* update of a generation)
Yield(t, g, m, h, prior, blueprint, phase, reasoning, diagram, data, status) ==
    LET h2 == create_update(h, phase, reasoning, diagram, data, status)
    IN /\ streaming_handler' = [streaming_handler EXCEPT ![g] = h2]
       /\ events' = [events EXCEPT ![t] = Append(prior, LastUpdate(h2))]
       /\ gb_blueprint' = [gb_blueprint EXCEPT ![t] =
              IF m = "batch" THEN gb_consume(blueprint, LastUpdate(h2))
              ELSE blueprint]
       /\ session_state' =
              IF m = "app"
              THEN run_generation_update(
                       IF prior = <<>> THEN main_reset(session_state)
                       ELSE session_state,
                       LastUpdate(h2), get_phase_timeline(h2))
              ELSE session_state

\* the except clause of generate_blueprint_stream up to its yield
YieldError(t, cause) ==
    /\ Yield(t, gen[t], mode[t], streaming_handler[gen[t]], events[t],
             gb_blueprint[t], "Error",
             ErrorReasoning(cause, provider[gen[t]]), NoDiagram, None,
             "error")
    /\ exception' = [exception EXCEPT ![t] = cause]
    /\ pc' = [pc EXCEPT ![t] = "error_yielded"]

\* a coordinator that resolves the detail level only when a stage needs its
\* configuration
ConfigFails_Late(t, g, ui, m) ==
    /\ ~InFlight(t)
    /\ Schedule(t)
    /\ run_no[t] < MaxRuns
    /\ resolve_detail_config(ui).kind = "raise"
    /\ run_no' = [run_no EXCEPT ![t] = @ + 1]
    /\ gen' = [gen EXCEPT ![t] = g]
    /\ mode' = [mode EXCEPT ![t] = m]
    /\ user_input' = [user_input EXCEPT ![t] = ui]
    /\ detail_config' = [detail_config EXCEPT ![t] = NoConfig]
    /\ results' = [results EXCEPT ![t] = <<>>]
    /\ exception' = [exception EXCEPT ![t] = NoException]
    /\ calls' = [calls EXCEPT ![t] = <<>>]
    /\ prompts' = [prompts EXCEPT ![t] = <<>>]
    /\ provider' = provider
    /\ requests' = [requests EXCEPT ![t] = <<>>]
    /\ constructed' = [constructed EXCEPT ![t] = <<>>]
    /\ outcome' = [outcome EXCEPT ![t] = NoOutcome]
    /\ stage' = [stage EXCEPT ![t] = 1]
    /\ pc' = [pc EXCEPT ![t] = "in_progress_yielded"]
    /\ Yield(t, g, m, reset(streaming_handler[g]), <<>>, None,
             StagePhase(1), StartReasoning(1, ui, provider[g]), NoDiagram,
             None, "in_progress")
    /\ UNCHANGED <<configs, args, ret>>

\* a coordinator whose get_detail_config call is inside the try block: the
\* except clause yields an error update before the exception propagates
ConfigFails_InsideTry(t, g, ui, m) ==
    /\ ~InFlight(t)
    /\ Schedule(t)
    /\ run_no[t] < MaxRuns
    /\ resolve_detail_config(ui).kind = "raise"
    /\ run_no' = [run_no EXCEPT ![t] = @ + 1]
    /\ gen' = [gen EXCEPT ![t] = g]
    /\ mode' = [mode EXCEPT ![t] = m]
    /\ user_input' = [user_input EXCEPT ![t] = ui]
    /\ detail_config' = [detail_config EXCEPT ![t] = NoConfig]
    /\ results' = [results EXCEPT ![t] = <<>>]
    /\ exception' = [exception EXCEPT ![t] =
           resolve_detail_config(ui).error.text]
    /\ calls' = [calls EXCEPT ![t] = <<>>]
    /\ prompts' = [prompts EXCEPT ![t] = <<>>]
    /\ provider' = provider
    /\ requests' = [requests EXCEPT ![t] = <<>>]
    /\ constructed' = [constructed EXCEPT ![t] = <<>>]
    /\ outcome' = [outcome EXCEPT ![t] = NoOutcome]
    /\ stage' = [stage EXCEPT ![t] = 0]
    /\ pc' = [pc EXCEPT ![t] = "error_yielded"]
    /\ Yield(t, g, m, reset(streaming_handler[g]), <<>>, None,
             "Error",
             ErrorReasoning(resolve_detail_config(ui).error.text,
                            provider[g]),
             NoDiagram, None, "error")
    /\ UNCHANGED <<configs, args, ret>>

\* The caller invokes generate_blueprint_stream(ui) on generator g and
\* get_detail_config raises: reset() has run, the call is before the try
\* block, so the ValueError reaches the caller (through generate_blueprint
\* in batch mode) and no update is yielded.
ConfigFails(t, g, ui, m) ==
    /\ ~InFlight(t)
    /\ Schedule(t)
    /\ run_no[t] < MaxRuns
    /\ resolve_detail_config(ui).kind = "raise"
    /\ run_no' = [run_no EXCEPT ![t] = @ + 1]
    /\ gen' = [gen EXCEPT ![t] = g]
    /\ mode' = [mode EXCEPT ![t] = m]
    /\ user_input' = [user_input EXCEPT ![t] = ui]
    /\ detail_config' = [detail_config EXCEPT ![t] = NoConfig]
    /\ results' = [results EXCEPT ![t] = <<>>]
    /\ exception' = [exception EXCEPT ![t] = NoException]
    /\ calls' = [calls EXCEPT ![t] = <<>>]
    /\ prompts' = [prompts EXCEPT ![t] = <<>>]
    /\ provider' = provider
    /\ session_state' =
           IF m = "app"
           THEN generation_returns(run_generation_except(
                    main_reset(session_state),
                    resolve_detail_config(ui).error.text))
           ELSE session_state
    /\ requests' = [requests EXCEPT ![t] = <<>>]
    /\ constructed' = [constructed EXCEPT ![t] = <<>>]
    /\ events' = [events EXCEPT ![t] = <<>>]
    /\ gb_blueprint' = [gb_blueprint EXCEPT ![t] = None]
    /\ streaming_handler' = [streaming_handler EXCEPT ![g] = reset(@)]
    /\ stage' = [stage EXCEPT ![t] = 0]
    /\ pc' = [pc EXCEPT ![t] = "config_raised"]
    /\ outcome' = [outcome EXCEPT ![t] =
           [kind |-> "raised",
            error |-> resolve_detail_config(ui).error.text]]
    /\ UNCHANGED <<configs, args, ret>>

\* The caller invokes generate_blueprint_stream(ui) on generator g and one
\* of the imports at the head of the try block raises (the agent modules
\* create their default model when they are imported): the except clause
\* yields the error update as the first update of the run.  What the caller
\* did before the invocation (args, ret) is left to the caller.
ImportFails(t, g, ui, m, cause) ==
    /\ ~InFlight(t)
    /\ Schedule(t)
    /\ run_no[t] < MaxRuns
    /\ resolve_detail_config(ui).kind = "return"
    /\ run_no' = [run_no EXCEPT ![t] = @ + 1]
    /\ gen' = [gen EXCEPT ![t] = g]
    /\ mode' = [mode EXCEPT ![t] = m]
    /\ user_input' = [user_input EXCEPT ![t] = ui]
    /\ detail_config' = [detail_config EXCEPT ![t] =
           resolve_detail_config(ui).value]
    /\ results' = [results EXCEPT ![t] = <<>>]
    /\ exception' = [exception EXCEPT ![t] = cause]
    /\ calls' = [calls EXCEPT ![t] = <<>>]
    /\ prompts' = [prompts EXCEPT ![t] = <<>>]
    /\ requests' = [requests EXCEPT ![t] = <<>>]
    /\ constructed' = [constructed EXCEPT ![t] = <<>>]
    /\ outcome' = [outcome EXCEPT ![t] = NoOutcome]
    /\ stage' = [stage EXCEPT ![t] = 0]
    /\ pc' = [pc EXCEPT ![t] = "error_yielded"]
    /\ Yield(t, g, m, reset(streaming_handler[g]), <<>>, None,
             "Error", ErrorReasoning(cause, provider'[g]), NoDiagram, None,
             "error")
    /\ UNCHANGED configs

\* The caller invokes generate_blueprint_stream(ui) on generator g and
\* takes its first update: reset(), get_detail_config, the imports, and the
\* in_progress update of Requirements Analysis.  What the caller did before
\* the invocation (args, ret) and the provider the generator was constructed
\* with are left to the caller.
StartRun(t, g, ui, m) ==
    /\ ~InFlight(t)
    /\ Schedule(t)
    /\ run_no[t] < MaxRuns
    /\ resolve_detail_config(ui).kind = "return"
    /\ detail_config' = [detail_config EXCEPT ![t] =
           resolve_detail_config(ui).value]
    /\ prompts' = [prompts EXCEPT ![t] = <<>>]
    /\ requests' = [requests EXCEPT ![t] = <<>>]
    /\ UNCHANGED configs
    /\ run_no' = [run_no EXCEPT ![t] = @ + 1]
    /\ gen' = [gen EXCEPT ![t] = g]
    /\ mode' = [mode EXCEPT ![t] = m]
    /\ user_input' = [user_input EXCEPT ![t] = ui]
    /\ results' = [results EXCEPT ![t] = <<>>]
    /\ exception' = [exception EXCEPT ![t] = NoException]
    /\ calls' = [calls EXCEPT ![t] = <<>>]
    /\ constructed' = [constructed EXCEPT ![t] = <<>>]
    /\ outcome' = [outcome EXCEPT ![t] = NoOutcome]
    /\ stage' = [stage EXCEPT ![t] = 1]
    /\ pc' = [pc EXCEPT ![t] = "in_progress_yielded"]
    /\ Yield(t, g, m, reset(streaming_handler[g]), <<>>, None,
             StagePhase(1), StartReasoning(1, ui, provider'[g]), NoDiagram,
             None, "in_progress")

\* the stage configuration the run of task t looks up after the in_progress
\* yield of its stage: none at stage 1, get_component_config at the others
ComponentConfig(t) ==
    IF pc[t] = "in_progress_yielded" /\ stage[t] > 1
    THEN get_component_config(user_input[t].detail_level,
                              StageComponent(stage[t]))
    ELSE Return(NoConfig)

\* what can raise between the in_progress yield of a stage and its model
\* call: creating the agent, and the configuration lookup when it fails
SetupCauses(t) ==
    Causes \cup (IF ComponentConfig(t).kind = "raise"
                 THEN {ComponentConfig(t).error.text}
                 ELSE {})

\* a prompt builder that pops max_tables from the configuration it is given,
\* which is the entry of the table itself
IssueCall_PopsConfig(t) ==
    /\ pc[t] = "in_progress_yielded"
    /\ Schedule(t)
    /\ ComponentConfig(t).kind = "return"
    /\ calls' = [calls EXCEPT ![t] = Append(@, stage[t])]
    /\ prompts' = [prompts EXCEPT ![t] =
           Append(@, StagePrompt(stage[t], user_input[t], results[t],
                                 ComponentConfig(t).value))]
    /\ requests' = [requests EXCEPT ![t] =
           Append(@, StageRequest(stage[t]))]
    /\ configs' =
           IF stage[t] = 2
           THEN [configs EXCEPT ![user_input[t].detail_level] =
                    [@ EXCEPT !.database =
                        [k \in DOMAIN @ \ {"max_tables"} |-> @[k]]]]
           ELSE configs
    /\ pc' = [pc EXCEPT ![t] = "awaiting"]
    /\ UNCHANGED <<streaming_handler, stage, gen, mode, user_input, results,
                   exception, events, constructed, gb_blueprint, outcome,
                   run_no, detail_config, session_state,
                   provider, args, ret>>

\* Resumed after the in_progress yield of a stage: the agent is created, the
\* stage configuration looked up, the prompt built, and the model call
\* issued and awaited.
IssueCall(t) ==
    /\ pc[t] = "in_progress_yielded"
    /\ Schedule(t)
    /\ ComponentConfig(t).kind = "return"
    /\ calls' = [calls EXCEPT ![t] = Append(@, stage[t])]
    /\ prompts' = [prompts EXCEPT ![t] =
           Append(@, StagePrompt(stage[t], user_input[t], results[t],
                                 ComponentConfig(t).value))]
    /\ requests' = [requests EXCEPT ![t] =
           Append(@, StageRequest(stage[t]))]
    /\ pc' = [pc EXCEPT ![t] = "awaiting"]
    /\ UNCHANGED <<streaming_handler, stage, gen, mode, user_input, results,
                   exception, events, constructed, gb_blueprint, outcome,
                   run_no, configs, detail_config, session_state,
                   provider, args, ret>>

\* Resumed after the in_progress yield of a stage, and creating the agent or
\* building the prompt raises: no call is issued.
SetupFails(t, cause) ==
    /\ pc[t] = "in_progress_yielded"
    /\ Schedule(t)
    /\ cause \in SetupCauses(t)
    /\ YieldError(t, cause)
    /\ UNCHANGED <<stage, gen, mode, user_input, results, calls,
                   constructed, outcome, run_no, configs, detail_config,
                   prompts, provider, requests, args, ret>>

\* The awaited model call returns output out: the stage's summary is built
\* and its completed update yielded.
CallReturns(t, out) ==
    /\ pc[t] = "awaiting"
    /\ Schedule(t)
    /\ out \in StageOutputs(stage[t]) \cup EmptyDiagramOutputs(stage[t])
    /\ results' = [results EXCEPT ![t] = Append(@, out)]
    /\ pc' = [pc EXCEPT ![t] = "completed_yielded"]
    /\ Yield(t, gen[t], mode[t], streaming_handler[gen[t]], events[t],
             gb_blueprint[t], StagePhase(stage[t]), Summary(stage[t], out),
             StageDiagram(stage[t], out), out, "completed")
    /\ UNCHANGED <<stage, gen, mode, user_input, exception, calls,
                   constructed, outcome, run_no, configs, detail_config,
                   prompts, provider, requests, args, ret>>

\* a coordinator that issues the call of the stage again when it raises
CallFails_Retry(t, cause) ==
    /\ pc[t] = "awaiting"
    /\ Schedule(t)
    /\ Len(calls[t]) < 2 * NumStages
    /\ calls' = [calls EXCEPT ![t] = Append(@, stage[t])]
    /\ prompts' = [prompts EXCEPT ![t] = Append(@, @[Len(@)])]
    /\ requests' = [requests EXCEPT ![t] = Append(@, @[Len(@)])]
    /\ UNCHANGED <<streaming_handler, pc, stage, gen, mode, user_input,
                   results, exception, events, constructed, gb_blueprint,
                   outcome, run_no, configs, detail_config, session_state,
                   provider, args, ret>>

\* The awaited model call raises.
CallFails(t, cause) ==
    /\ pc[t] = "awaiting"
    /\ Schedule(t)
    /\ YieldError(t, cause)
    /\ UNCHANGED <<stage, gen, mode, user_input, results, calls,
                   constructed, outcome, run_no, configs, detail_config,
                   prompts, provider, requests, args, ret>>

\* a coordinator that starts the stage it has just completed again
NextStage_Repeat(t) ==
    /\ pc[t] = "completed_yielded"
    /\ Schedule(t)
    /\ stage[t] < NumStages
    /\ stage' = stage
    /\ pc' = [pc EXCEPT ![t] = "in_progress_yielded"]
    /\ Yield(t, gen[t], mode[t], streaming_handler[gen[t]], events[t],
             gb_blueprint[t], StagePhase(stage[t]),
             StartReasoning(stage[t], user_input[t], provider[gen[t]]),
             NoDiagram, None,
             "in_progress")
    /\ UNCHANGED <<gen, mode, user_input, results, exception, calls,
                   constructed, outcome, run_no, configs, detail_config,
                   prompts, provider, requests, args, ret>>

\* Resumed after the completed yield of a stage before the last: the
\* in_progress update of the next stage.
NextStage(t) ==
    /\ pc[t] = "completed_yielded"
    /\ Schedule(t)
    /\ stage[t] < NumStages
    /\ stage' = [stage EXCEPT ![t] = @ + 1]
    /\ pc' = [pc EXCEPT ![t] = "in_progress_yielded"]
    /\ Yield(t, gen[t], mode[t], streaming_handler[gen[t]], events[t],
             gb_blueprint[t], StagePhase(stage[t] + 1),
             StartReasoning(stage[t] + 1, user_input[t],
                            provider[gen[t]]), NoDiagram, None,
             "in_progress")
    /\ UNCHANGED <<gen, mode, user_input, results, exception, calls,
                   constructed, outcome, run_no, configs, detail_config,
                   prompts, provider, requests, args, ret>>

\* Resumed after the completed yield of the last stage: the temporary
\* TechnicalBlueprint (empty diagram) is constructed, the full architecture
\* diagram built from it, the final TechnicalBlueprint constructed, and the
\* Complete update yielded.
Assemble(t) ==
    /\ pc[t] = "completed_yielded"
    /\ Schedule(t)
    /\ stage[t] = NumStages
    /\ LET temporary == TechnicalBlueprint(user_input[t], results[t], EmptyDiagram)
           blueprint == TechnicalBlueprint(user_input[t], results[t],
                            build_full_architecture_diagram(temporary))
       IN /\ constructed' = [constructed EXCEPT ![t] = @ \o <<temporary, blueprint>>]
          /\ Yield(t, gen[t], mode[t], streaming_handler[gen[t]], events[t],
                   gb_blueprint[t], "Complete", CompleteReasoning, NoDiagram,
                   blueprint, "completed")
    /\ pc' = [pc EXCEPT ![t] = "complete_yielded"]
    /\ UNCHANGED <<stage, gen, mode, user_input, results, exception, calls,
                   outcome, run_no, configs, detail_config, prompts, provider,
                   requests, args,
                   ret>>

\* the places of the assembly where an exception can be raised
AssemblyPoints == {"temporary", "diagram", "blueprint"}

\* an assembly that is attempted, and raises, after any stage
AssembleFails_AnyStage(t, point, cause) ==
    /\ pc[t] = "completed_yielded"
    /\ Schedule(t)
    /\ stage[t] <= NumStages
    /\ YieldError(t, cause)
    /\ UNCHANGED <<stage, gen, mode, user_input, results, calls, outcome,
                   run_no, configs, detail_config, prompts, provider,
                   requests, args, ret,
                   constructed>>

\* Resumed after the completed yield of the last stage, and the assembly
\* raises: constructing the temporary TechnicalBlueprint, building the
\* diagram, or constructing the final TechnicalBlueprint.  The assembly is
\* inside the try block, so the except clause yields the error update.
AssembleFails(t, point, cause) ==
    /\ pc[t] = "completed_yielded"
    /\ Schedule(t)
    /\ stage[t] = NumStages
    /\ constructed' = [constructed EXCEPT ![t] =
           IF point = "temporary" THEN @
           ELSE Append(@, TechnicalBlueprint(user_input[t], results[t], EmptyDiagram))]
    /\ YieldError(t, cause)
    /\ UNCHANGED <<stage, gen, mode, user_input, results, calls, outcome,
                   run_no, configs, detail_config, prompts, provider,
                   requests, args, ret>>

\* a generator that stays suspended after its Complete yield
Finish_Stuck(t) ==
    /\ pc[t] = "complete_yielded"
    /\ UNCHANGED vars

\* Resumed after the Complete yield: the generator ends; generate_blueprint
\* returns its blueprint (or raises when it has none).
Finish(t) ==
    /\ pc[t] = "complete_yielded"
    /\ Schedule(t)
    /\ pc' = [pc EXCEPT ![t] = "done"]
    /\ outcome' = [outcome EXCEPT ![t] =
           IF mode[t] = "batch" THEN gb_result(gb_blueprint[t])
           ELSE [kind |-> "exhausted"]]
    /\ session_state' =
           IF mode[t] = "app" THEN generation_returns(session_state)
           ELSE session_state
    /\ UNCHANGED <<streaming_handler, stage, gen, mode, user_input, results,
                   exception, events, calls, constructed, gb_blueprint,
                   run_no, configs, detail_config, prompts,
                   provider, requests, args,
                   ret>>

\* Resumed after the error yield: the bare raise; the exception propagates
\* to the caller, through generate_blueprint in batch mode.
Reraise(t) ==
    /\ pc[t] = "error_yielded"
    /\ Schedule(t)
    /\ pc' = [pc EXCEPT ![t] = "raised"]
    /\ outcome' = [outcome EXCEPT ![t] = [kind |-> "raised", error |-> exception[t]]]
    /\ session_state' =
           IF mode[t] = "app"
           THEN generation_returns(
                    run_generation_except(session_state, exception[t]))
           ELSE session_state
    /\ UNCHANGED <<streaming_handler, stage, gen, mode, user_input, results,
                   exception, events, calls, constructed, gb_blueprint,
                   run_no, configs, detail_config, prompts,
                   provider, requests, args,
                   ret>>

\* a step of the generator of task t other than its first
Step(t) ==
    \/ IssueCall(t)
    \/ \E cause \in SetupCauses(t) : SetupFails(t, cause)
    \/ \E out \in StageOutputs(stage[t]) : CallReturns(t, out)
    \/ \E cause \in Causes : CallFails(t, cause)
    \/ NextStage(t)
    \/ Assemble(t)
    \/ \E point \in AssemblyPoints, cause \in Causes : AssembleFails(t, point, cause)
    \/ Finish(t)
    \/ Reraise(t)

\* the caller of the application: it runs one invocation to completion
\* before it starts the next (app.py, generate_blueprint_with_progress)
MainTask == "A"

\* One caller, invocations one after the other, on any generator.
Next ==
    \/ \E g \in Generators, ui \in UserInputs, m \in Modes :
           UNCHANGED <<args, ret, provider>> /\ StartRun(MainTask, g, ui, m)
    \/ \E g \in Generators, ui \in UserInputs \cup UnvalidatedInputs,
          m \in Modes :
           ConfigFails(MainTask, g, ui, m)
    \/ \E g \in Generators, ui \in UserInputs, m \in Modes,
          cause \in Causes :
           /\ UNCHANGED <<args, ret, provider>>
           /\ ImportFails(MainTask, g, ui, m, cause)
    \/ IssueCall(MainTask)
    \/ \E cause \in SetupCauses(MainTask) : SetupFails(MainTask, cause)
    \/ \E out \in StageOutputs(stage[MainTask]) : CallReturns(MainTask, out)
    \/ \E cause \in Causes : CallFails(MainTask, cause)
    \/ NextStage(MainTask)
    \/ Assemble(MainTask)
    \/ \E point \in AssemblyPoints, cause \in Causes :
           AssembleFails(MainTask, point, cause)
    \/ Finish(MainTask)
    \/ Reraise(MainTask)

Spec == Init /\ [][Next]_vars

\* Two callers, each making one invocation and iterating the stream itself;
\* the invocations interleave at the suspension points of their generators
\* (the yields and the awaited model calls).
NextInterleaved ==
    \/ \E t \in Tasks, g \in Generators, ui \in UserInputs :
           /\ pc[t] = "idle"
           /\ UNCHANGED <<args, ret, provider>>
           /\ StartRun(t, g, ui, "stream")
    \/ \E t \in Tasks, g \in Generators,
          ui \in UserInputs \cup UnvalidatedInputs :
           /\ pc[t] = "idle"
           /\ ConfigFails(t, g, ui, "stream")
    \/ \E t \in Tasks, g \in Generators, ui \in UserInputs,
          cause \in Causes :
           /\ pc[t] = "idle"
           /\ UNCHANGED <<args, ret, provider>>
           /\ ImportFails(t, g, ui, "stream", cause)
    \/ \E t \in Tasks : IssueCall(t)
    \/ \E t \in Tasks : \E cause \in SetupCauses(t) : SetupFails(t, cause)
    \/ \E t \in Tasks : \E out \in StageOutputs(stage[t]) : CallReturns(t, out)
    \/ \E t \in Tasks, cause \in Causes : CallFails(t, cause)
    \/ \E t \in Tasks : NextStage(t)
    \/ \E t \in Tasks : Assemble(t)
    \/ \E t \in Tasks, point \in AssemblyPoints, cause \in Causes :
           AssembleFails(t, point, cause)
    \/ \E t \in Tasks : Finish(t)
    \/ \E t \in Tasks : Reraise(t)

SpecInterleaved == Init /\ [][NextInterleaved]_vars

\* The caller keeps consuming and every model call returns: a generator that
\* can take a step eventually takes one.
FairSpec == Spec /\ WF_vars(Step(MainTask))

\* ------------------------------------------------------------------------
\* The application: main() of app.py submits the form and, when the form
\* returns a UserInput, runs one generation to its end.
\* ------------------------------------------------------------------------

\* the variables of the pipeline
pipeline ==
    <<streaming_handler, pc, stage, gen, mode, user_input, results,
      exception, events, calls, constructed, gb_blueprint, outcome, run_no,
      running, switches, configs, detail_config, prompts, provider,
      session_state, requests>>

\* idea texts typed into the form
IdeaStrings ==
    {"", "A CRM app", "A CRM tool", " A CRM app"}

\* the idea texts as characters, with a nine-character text followed by an
\* ideographic space, and the same text between a line tabulation and e
\* with acute (ten characters without the line tabulation)
IdeaTexts ==
    {Chars[x] : x \in IdeaStrings}
    \cup {Chars["A CRM app"] \o <<"U+3000">>,
          <<VT>> \o Chars["A CRM app"] \o <<EACUTE>>}

\* the platform selected in the form
FormPlatforms == {"aws"}

\* the provider selected above the form
FormProviders == {"deepseek", "openai"}

\* the BlueprintGenerator generate_blueprint_with_progress constructs for a
\* generation: its tracker is a new StreamingHandler, which is the state
\* reset() puts a used one in
AppGenerator == CHOOSE g \in Generators : TRUE

\* The form is submitted with an idea text it rejects: st.error, and
\* render_input_form returns None, so main() starts nothing.
FormRejects(text, d, p) ==
    /\ ~InFlight(MainTask)
    /\ render_input_form(text, d, p) = None
    /\ args' = [fn |-> "render_input_form", business_idea |-> text,
                detail_level |-> d, deployment_platform |-> p]
    /\ ret' = Return(None)
    /\ UNCHANGED pipeline

\* The form is submitted with an idea text it accepts: main() gets the
\* UserInput and iterates generate_blueprint_stream on a generator, whose
\* first update is the in_progress update of stage 1 or, when an import of
\* the agent modules fails, the error update.  The generator is
\* constructed with the provider
\* selected above the form (st.session_state.selected_provider).
FormAccepts(text, d, p, selected_provider) ==
    /\ render_input_form(text, d, p) # None
    /\ ~session_state.is_generating
    /\ provider' = [provider EXCEPT ![AppGenerator] =
           BlueprintGenerator_provider(selected_provider)]
    /\ args' = [fn |-> "render_input_form", business_idea |-> text,
                detail_level |-> d, deployment_platform |-> p]
    /\ ret' = Return(render_input_form(text, d, p))
    /\ \/ StartRun(MainTask, AppGenerator,
                    render_input_form(text, d, p), "app")
       \/ \E cause \in Causes :
              ImportFails(MainTask, AppGenerator,
                          render_input_form(text, d, p), "app", cause)

NextApp ==
    \/ \E text \in IdeaTexts, d \in DetailLevel, p \in FormPlatforms :
           FormRejects(text, d, p)
    \/ \E text \in IdeaTexts, d \in DetailLevel, p \in FormPlatforms,
          selected_provider \in FormProviders :
           FormAccepts(text, d, p, selected_provider)
    \/ IssueCall(MainTask)
    \/ \E cause \in SetupCauses(MainTask) : SetupFails(MainTask, cause)
    \/ \E out \in StageOutputs(stage[MainTask])
                    \cup EmptyDiagramOutputs(stage[MainTask]) :
           CallReturns(MainTask, out)
    \/ \E cause \in Causes : CallFails(MainTask, cause)
    \/ NextStage(MainTask)
    \/ Assemble(MainTask)
    \/ \E point \in AssemblyPoints, cause \in Causes :
           AssembleFails(MainTask, point, cause)
    \/ Finish(MainTask)
    \/ Reraise(MainTask)

SpecApp == Init /\ [][NextApp]_vars

\* ------------------------------------------------------------------------
\* The functions of the modules, each called once by a client on an
\* argument drawn from the sets below.
\* ------------------------------------------------------------------------

TierStrings ==
    {"high_level", "detailed", "production_ready", "enterprise",
     "HIGH_LEVEL", "high level", ""}

\* deployment platforms passed to UserInput
PlatformStrings == {"aws", "vercel", "other", "AWS", "mars", ""}

ComponentStrings ==
    {"requirements", "database", "api", "frontend", "deployment",
     "description", "Database"}

ComplexityLabels ==
    {"low", "Low", "LOW", "medium", "Medium", "MEDIUM", "high", "High",
     "HIGH", "extreme", "", "high complexity"}

\* diagram texts passed to validate_mermaid and get_diagram_with_fallback
DiagramStrings ==
    {"", "          ", "graph TD", "erDiagram", "sequenceDiagram",
     "FLOWCHART LR", "classDiagram", "classdiagram", "stateDiagram-v2", "pie"}

\* the status arguments of create_update
Statuses == {"in_progress", "completed", "error"}

\* trackers a client can hold: a new one, and one on which the in_progress
\* update of stage i was created
TrackerStates ==
    {StreamingHandlerInit}
    \cup {create_update(StreamingHandlerInit, StagePhase(i), CompleteReasoning,
                        NoDiagram, None, "in_progress") : i \in 1..NumStages}

\* idea texts with one whitespace character of each kind after nine
\* characters, and in front of ten
WhitespaceTexts ==
    {Chars["A CRM app"] \o <<w>> : w \in Whitespace}
    \cup {<<w>> \o Chars["A CRM tool"] : w \in Whitespace}

\* idea texts of nine ASCII characters with one character outside ASCII that
\* is not whitespace, after them or in front of them, and with a further
\* whitespace character around that
NonAsciiTexts ==
    {Chars["A CRM app"] \o <<c>> : c \in {EACUTE, ZWSP}}
    \cup {<<c>> \o Chars["A CRM app"] : c \in {EACUTE, ZWSP}}
    \cup {<<NBSP, EACUTE>> \o Chars["A CRM app"] \o <<"U+2003">>,
          <<EACUTE, NBSP>> \o Chars["A CRM app"] \o <<"U+2028", ZWSP>>}

FunctionCalls ==
    {[fn |-> "get_detail_config", detail_level |-> d] : d \in TierStrings}
    \cup {[fn |-> "render_input_form", business_idea |-> text,
           detail_level |-> "detailed", deployment_platform |-> p] :
              text \in WhitespaceTexts \cup NonAsciiTexts,
              p \in FormPlatforms}
    \cup {[fn |-> "get_component_config", detail_level |-> d, component |-> c] :
              d \in TierStrings, c \in ComponentStrings}
    \cup {[fn |-> "_estimate_timeline", complexity |-> c] :
              c \in ComplexityLabels}
    \cup {[fn |-> "UserInput", business_idea |-> text, detail_level |-> d,
           deployment_platform |-> p] :
              text \in IdeaTexts, d \in TierStrings, p \in PlatformStrings}
    \cup {[fn |-> "create_update", h |-> h, phase |-> phase,
           status |-> status] :
              h \in TrackerStates, phase \in PhaseArguments,
              status \in Statuses}
    \cup {[fn |-> "validate_mermaid", diagram |-> d] : d \in DiagramStrings}
    \cup {[fn |-> "get_diagram_with_fallback", diagram |-> d] :
              d \in DiagramStrings \cup {NoDiagram}}

InitFunctions == Constructed /\ args \in FunctionCalls

Call_get_detail_config ==
    /\ args.fn = "get_detail_config"
    /\ ret = Pending
    /\ ret' = get_detail_config(args.detail_level)
    /\ UNCHANGED <<pipeline, args>>

Call_get_component_config ==
    /\ args.fn = "get_component_config"
    /\ ret = Pending
    /\ ret' = get_component_config(args.detail_level, args.component)
    /\ UNCHANGED <<pipeline, args>>

Call_estimate_timeline ==
    /\ args.fn = "_estimate_timeline"
    /\ ret = Pending
    /\ ret' = Return(_estimate_timeline(args.complexity))
    /\ UNCHANGED <<pipeline, args>>

Call_UserInput ==
    /\ args.fn = "UserInput"
    /\ ret = Pending
    /\ ret' = UserInput(args.business_idea, args.detail_level,
                        args.deployment_platform)
    /\ UNCHANGED <<pipeline, args>>

Call_render_input_form ==
    /\ args.fn = "render_input_form"
    /\ ret = Pending
    /\ ret' = Return(render_input_form(args.business_idea, args.detail_level,
                                       args.deployment_platform))
    /\ UNCHANGED <<pipeline, args>>

Call_create_update ==
    /\ args.fn = "create_update"
    /\ ret = Pending
    /\ ret' = Return(create_update(args.h, args.phase, CompleteReasoning,
                                   NoDiagram, None, args.status))
    /\ UNCHANGED <<pipeline, args>>

Call_validate_mermaid ==
    /\ args.fn = "validate_mermaid"
    /\ ret = Pending
    /\ ret' = Return(validate_mermaid(args.diagram))
    /\ UNCHANGED <<pipeline, args>>

Call_get_diagram_with_fallback ==
    /\ args.fn = "get_diagram_with_fallback"
    /\ ret = Pending
    /\ ret' = Return(get_diagram_with_fallback(args.diagram))
    /\ UNCHANGED <<pipeline, args>>

NextFunctions ==
    \/ Call_get_detail_config
    \/ Call_get_component_config
    \/ Call_estimate_timeline
    \/ Call_UserInput
    \/ Call_render_input_form
    \/ Call_create_update
    \/ Call_validate_mermaid
    \/ Call_get_diagram_with_fallback

SpecFunctions == InitFunctions /\ [][NextFunctions]_vars

\* ------------------------------------------------------------------------
\* Properties
\* ------------------------------------------------------------------------

\* the updates a fresh StreamingHandler produces for the create_update calls
\* that produced the updates evs, in the same order
RECURSIVE Replay(_, _)
Replay(h, evs) ==
    IF evs = <<>> THEN h
    ELSE Replay(create_update(h, Head(evs).phase, Head(evs).reasoning,
                              Head(evs).diagram, Head(evs).data,
                              Head(evs).status),
                Tail(evs))

AloneEvents(evs) == Replay(StreamingHandlerInit, evs).updates

\* the run of task t got through its five stages and the assembly
Succeeded(t) == pc[t] \in {"complete_yielded", "done"}

\* the run of task t ended in the except clause
Failed(t) == pc[t] \in {"error_yielded", "raised"}

\* number of updates of evs with the given phase and status
CountEvents(evs, phase, status) ==
    Cardinality({n \in 1..Len(evs) :
                    evs[n].phase = phase /\ evs[n].status = status})

\* the run of task t has ended, or yielded its last update, after all five
\* stage calls returned
EndedAfterFiveStages(t) ==
    /\ pc[t] \in {"complete_yielded", "done", "error_yielded", "raised"}
    /\ calls[t] = <<1, 2, 3, 4, 5>>
    /\ Len(results[t]) = NumStages

\* the first ten updates of evs are, for each stage in order, its in_progress
\* update immediately followed by its completed update
TenStageEvents(evs) ==
    /\ Len(evs) >= 10
    /\ \A i \in 1..5 :
          /\ evs[2 * i - 1].phase = PHASES[i]
          /\ evs[2 * i - 1].status = "in_progress"
          /\ evs[2 * i].phase = PHASES[i]
          /\ evs[2 * i].status = "completed"

\* C1 (as claimed): a run in which all five stage calls succeed has emitted
\* exactly 11 updates: for each stage in order its in_progress update
\* immediately followed by its completed update, then one update with phase
\* "Complete" and status completed; the last update's progress is 100.
C1_FiveStagesThenComplete ==
    \A t \in Tasks :
        EndedAfterFiveStages(t) =>
            /\ Len(events[t]) = 11
            /\ TenStageEvents(events[t])
            /\ events[t][11].phase = "Complete"
            /\ events[t][11].status = "completed"
            /\ events[t][11].progress = 100

\* C1 (amended): a run in which all five stage calls succeed has emitted
\* exactly 11 updates: for each stage in order its in_progress update
\* immediately followed by its completed update, then one final update.  When
\* the document is assembled the final update has phase "Complete" and status
\* completed and its progress is 100; when the assembly raises it is the
\* error update (phase "Error", status error) and no update has phase
\* "Complete".  Every run that emits the Complete update is such a run.
C1_SuccessfulRunEvents ==
    \A t \in Tasks :
        /\ EndedAfterFiveStages(t) =>
              /\ Len(events[t]) = 11
              /\ TenStageEvents(events[t])
              /\ Succeeded(t) \/ Failed(t)
              /\ Succeeded(t) =>
                    /\ events[t][11].phase = "Complete"
                    /\ events[t][11].status = "completed"
                    /\ events[t][11].progress = 100
              /\ Failed(t) =>
                    /\ events[t][11].phase = "Error"
                    /\ events[t][11].status = "error"
                    /\ \A n \in 1..11 : events[t][n].phase # "Complete"
        /\ Succeeded(t) => EndedAfterFiveStages(t)
        /\ (\E n \in 1..Len(events[t]) : events[t][n].phase = "Complete")
               => Succeeded(t)

C1_Witness ==
    /\ pc[MainTask] = "done"
    /\ Len(calls[MainTask]) = 5
    /\ Len(events[MainTask]) = 11
    /\ events[MainTask][11].phase = "Complete"

\* C2: a run that fails at stage k has emitted exactly one update with status
\* error; it has phase "Error", its reasoning contains the cause of the
\* failure, it is the last update, no update of a stage after k has been
\* emitted, and no update carries a TechnicalBlueprint.
C2_FailedRunEvents ==
    \A t \in Tasks :
        Failed(t) =>
            LET evs == events[t]
                k == stage[t]
            IN /\ CountEvents(evs, "Error", "error") = 1
               /\ \A n \in 1..Len(evs) :
                      (evs[n].status = "error" \/ evs[n].phase = "Error")
                          <=> n = Len(evs)
               /\ "cause" \in DOMAIN evs[Len(evs)].reasoning
               /\ evs[Len(evs)].reasoning.cause = exception[t]
               /\ \A n \in 1..Len(evs), j \in (k + 1)..5 :
                      evs[n].phase # PHASES[j]
               /\ \A n \in 1..Len(evs) : evs[n].data.kind # "TechnicalBlueprint"
               /\ pc[t] = "raised" => outcome[t].kind = "raised"

C2_Witness ==
    /\ pc[MainTask] = "raised"
    /\ stage[MainTask] = 3
    /\ Len(results[MainTask]) = 2
    /\ calls[MainTask] = <<1, 2, 3>>
    /\ events[MainTask][Len(events[MainTask])].status = "error"
    /\ exception[MainTask] = "timeout"

\* C3: the model calls of a run are issued for the stages 1, 2, 3, ... in
\* this order, each at most once, and when the call of stage i has been
\* issued every stage before i has completed exactly once.
C3_StagesInOrderOnce ==
    \A t \in Tasks :
        /\ Len(calls[t]) <= 5
        /\ \A n \in 1..Len(calls[t]) :
              /\ calls[t][n] = n
              /\ \A j \in 1..(n - 1) :
                    /\ CountEvents(events[t], PHASES[j], "completed") = 1
                    /\ results[t][j].kind =
                          CASE j = 1 -> "RequirementsAnalysis"
                            [] j = 2 -> "DatabaseSchema"
                            [] j = 3 -> "APIDesign"
                            [] j = 4 -> "FrontendDesign"
                            [] j = 5 -> "DeploymentPlan"
        /\ \A j \in 1..5 :
              CountEvents(events[t], PHASES[j], "completed") <= 1

C3_Witness ==
    /\ calls[MainTask] = <<1, 2, 3, 4, 5>>
    /\ pc[MainTask] = "awaiting"
    /\ Len(results[MainTask]) = 4

\* C4: in every run, also one that fails while the final document is
\* assembled, the progress values of the emitted updates never decrease.
C4_ProgressNonDecreasing ==
    \A t \in Tasks :
        \A n \in 1..(Len(events[t]) - 1) :
            events[t][n].progress <= events[t][n + 1].progress

\* C5: the in_progress update of the stage with zero-based index i has
\* progress (i / 5) * 100, its completed update ((i + 1) / 5) * 100.
C5_StageProgress ==
    \A t \in Tasks :
        \A n \in 1..Len(events[t]) :
            \A i \in 0..4 :
                events[t][n].phase = StagePhase(i + 1) =>
                    /\ events[t][n].status = "in_progress"
                          => events[t][n].progress * 5 = i * 100
                    /\ events[t][n].status = "completed"
                          => events[t][n].progress * 5 = (i + 1) * 100
                    /\ n = IF events[t][n].status = "in_progress"
                           THEN 2 * i + 1 ELSE 2 * i + 2

C5_Witness ==
    /\ pc[MainTask] = "completed_yielded"
    /\ stage[MainTask] = 4
    /\ events[MainTask][7].progress = 60
    /\ events[MainTask][8].progress = 80

\* C6 (as claimed): every TechnicalBlueprint object that exists in a run was
\* constructed after all five stages completed, holds all five stage
\* results, and has its full architecture diagram filled in.
C6_NeverPartiallyConstructed ==
    \A t \in Tasks :
        \A n \in 1..Len(constructed[t]) :
            /\ Len(results[t]) = 5
            /\ constructed[t][n].full_architecture_diagram # EmptyDiagram

\* C6 (amended): a TechnicalBlueprint is constructed only after all five
\* stages have completed, each exactly once and without an error, and holds
\* the five stage results of the run; an update carries a TechnicalBlueprint
\* only as the eleventh, Complete, update, and that one has its diagram and
\* its timeline filled in.  The one TechnicalBlueprint with an empty diagram
\* is the temporary one handed to the diagram builder; no update carries it.
C6_OnlyCompleteBlueprintEmitted ==
    \A t \in Tasks :
        /\ \A n \in 1..Len(constructed[t]) :
              /\ Len(results[t]) = 5
              /\ \A j \in 1..5 :
                    CountEvents(events[t], PHASES[j], "completed") = 1
              /\ \A k \in 1..10 : events[t][k].status # "error"
              /\ constructed[t][n].requirements = results[t][1]
              /\ constructed[t][n].database_schema = results[t][2]
              /\ constructed[t][n].api_design = results[t][3]
              /\ constructed[t][n].frontend_design = results[t][4]
              /\ constructed[t][n].deployment_plan = results[t][5]
              /\ constructed[t][n].full_architecture_diagram = EmptyDiagram
                    => n = 1
        /\ \A k \in 1..Len(events[t]) :
              events[t][k].data.kind = "TechnicalBlueprint" =>
                  /\ k = 11
                  /\ events[t][k].phase = "Complete"
                  /\ events[t][k].data.full_architecture_diagram # EmptyDiagram
                  /\ events[t][k].data.full_architecture_diagram.text = "graph TB"
                  /\ events[t][k].data.estimated_timeline
                        \in {"6-8 weeks for MVP", "3-4 months for MVP",
                             "4-6 months for MVP"}
                  /\ events[t][k].data = constructed[t][2]

C6_Witness ==
    /\ pc[MainTask] = "complete_yielded"
    /\ Len(constructed[MainTask]) = 2
    /\ constructed[MainTask][1].full_architecture_diagram = EmptyDiagram
    /\ events[MainTask][11].data = constructed[MainTask][2]

\* C7: generate_blueprint returns the TechnicalBlueprint carried by the final
\* Complete update when the run succeeds, raises when the run fails, and
\* never returns anything from a run that emitted an error update.
C7_BatchReturnsOrRaises ==
    \A t \in Tasks :
        mode[t] = "batch" =>
            /\ pc[t] = "done" =>
                  /\ outcome[t].kind = "returned"
                  /\ events[t][Len(events[t])].phase = "Complete"
                  /\ outcome[t].value = events[t][Len(events[t])].data
                  /\ outcome[t].value.kind = "TechnicalBlueprint"
            /\ pc[t] = "raised" =>
                  /\ outcome[t].kind = "raised"
                  /\ outcome[t].error = exception[t]
            /\ outcome[t].kind = "returned" =>
                  \A n \in 1..Len(events[t]) : events[t][n].status # "error"
            /\ (\E n \in 1..Len(events[t]) : events[t][n].status = "error")
                  => gb_blueprint[t] = None

C7_Witness ==
    /\ mode[MainTask] = "batch"
    /\ pc[MainTask] = "done"
    /\ outcome[MainTask].kind = "returned"
    /\ outcome[MainTask].value = events[MainTask][11].data

\* C8: whatever the earlier runs on its generator did, the updates of a run
\* are those a fresh generator emits, and the tracker's update history holds
\* exactly the updates of this run.
C8_NoLeakBetweenRuns ==
    \A t \in Tasks :
        InFlight(t) =>
            /\ events[t] = AloneEvents(events[t])
            /\ streaming_handler[gen[t]].updates = events[t]
            /\ streaming_handler[gen[t]].current_phase_index
                  = Replay(StreamingHandlerInit, events[t]).current_phase_index

C8_Witness ==
    /\ run_no[MainTask] = 2
    /\ \E g \in Generators :
          g # gen[MainTask] /\ streaming_handler[g] = StreamingHandlerInit
    /\ pc[MainTask] = "awaiting"
    /\ stage[MainTask] = 2
    /\ Len(streaming_handler[gen[MainTask]].updates) = 3

\* phase_index and progress of every update of task t are those of a run by
\* itself on a fresh generator
AsAlone(t) ==
    LET alone == AloneEvents(events[t])
    IN \A n \in 1..Len(events[t]) :
           /\ events[t][n].phase_index = alone[n].phase_index
           /\ events[t][n].progress = alone[n].progress

\* C9 (as claimed): interleaved invocations, also on the same generator,
\* emit the phase_index and progress they emit when run alone.
C9_InterleavedAsAlone == \A t \in Tasks : AsAlone(t)

\* C9 (amended): interleaved invocations on different BlueprintGenerator
\* instances emit the phase_index and progress they emit when run alone, and
\* each generator's tracker holds the updates of its own run only.
C9_DistinctGeneratorsAsAlone ==
    \A t \in Tasks :
        (\A u \in Tasks \ {t} : pc[u] = "idle" \/ gen[u] # gen[t]) =>
            /\ AsAlone(t)
            /\ pc[t] # "idle" => streaming_handler[gen[t]].updates = events[t]

C9_Witness ==
    /\ switches = 2
    /\ gen["A"] # gen["B"]
    /\ pc["A"] = "complete_yielded"
    /\ pc["B"] = "awaiting"
    /\ stage["B"] = 2
    /\ events["A"][11].progress = 100

\* the run of task t has ended and its last update is the Complete update or
\* the error update
EndedProperly(t) ==
    \/ /\ pc[t] = "done"
       /\ events[t][Len(events[t])].phase = "Complete"
       /\ events[t][Len(events[t])].status = "completed"
    \/ /\ pc[t] = "raised"
       /\ events[t][Len(events[t])].phase = "Error"
       /\ events[t][Len(events[t])].status = "error"

\* the last run of task t is over: its generator ended, or an exception
\* left it
RunOver(t) == pc[t] \in {"done", "raised", "config_raised"}

\* C10 (as claimed): a run that is over (every run gets there when the model
\* calls return and the caller keeps consuming) has emitted the Complete or
\* the error update as its last update.
C10_EveryRunEndsWithEvent ==
    \A t \in Tasks :
        RunOver(t) =>
            /\ events[t] # <<>>
            /\ \/ /\ events[t][Len(events[t])].phase = "Complete"
                  /\ events[t][Len(events[t])].status = "completed"
               \/ /\ events[t][Len(events[t])].phase = "Error"
                  /\ events[t][Len(events[t])].status = "error"

\* the ways a run is over: after the Complete or the error update, or by the
\* exception of get_detail_config without any update
OverAsTheCodeEnds(t) ==
    /\ pc[t] \in {"done", "raised"} => EndedProperly(t)
    /\ pc[t] = "config_raised" =>
          /\ events[t] = <<>>
          /\ outcome[t].kind = "raised"
          /\ resolve_detail_config(user_input[t]).kind = "raise"
    /\ InFlight(t) =>
          /\ events[t] # <<>>
          /\ resolve_detail_config(user_input[t]).kind = "return"

\* C10 (amended): when every model call returns and the caller keeps
\* consuming, a run that has yielded an update ends, with the Complete update
\* (the generator is exhausted) or the error update (the exception is
\* raised again) as its last; a run whose detail level get_detail_config
\* does not resolve is over at once, by that exception and without any
\* update.  No run is over in another way, and none waits forever.
C10_RunTerminates ==
    /\ \A t \in Tasks : InFlight(t) ~> EndedProperly(t)
    /\ [](\A t \in Tasks : OverAsTheCodeEnds(t))

C10_Witness ==
    /\ pc[MainTask] = "raised"
    /\ run_no[MainTask] = 2
    /\ stage[MainTask] = 5
    /\ Len(results[MainTask]) = 5
    /\ events[MainTask][11].status = "error"

\* the argument of the call lies in the bucket: the returned timeline text
\* contains the bucket's text and neither of the other two
InBucket(timeline, bucket) ==
    \A b \in {"6-8 weeks", "3-4 months", "4-6 months"} :
        Contains(Chars[b], Chars[timeline]) <=> b = bucket

\* the bucket the specification gives a complexity label
BucketOf(label) ==
    IF label \in {"low", "Low", "LOW"} THEN "6-8 weeks"
    ELSE IF label \in {"high", "High", "HIGH"} THEN "4-6 months"
    ELSE "3-4 months"

\* C11 (as claimed): for each of the tiers high_level, detailed and
\* production_ready get_detail_config returns a configuration that has a
\* sub-configuration for each of the five stages requirements, database,
\* api, frontend and deployment; for any other string it raises an error
\* that lists the valid tiers.
C11_FiveStageSubConfigurations ==
    (args.fn = "get_detail_config" /\ ret # Pending) =>
        IF args.detail_level \in DetailLevel
        THEN /\ ret.kind = "return"
             /\ \A stg \in {"requirements", "database", "api", "frontend",
                            "deployment"} :
                    stg \in DOMAIN ret.value
        ELSE /\ ret.kind = "raise"
             /\ ret.error.valid = <<"high_level", "detailed", "production_ready">>

\* C11 (amended): for each of the three tiers get_detail_config returns a
\* configuration with exactly the keys description, database, api, frontend
\* and deployment: a sub-configuration for each of the four stages after
\* Requirements Analysis, each with its size or detail setting, and none for
\* requirements; get_component_config returns those sub-configurations and
\* raises for "requirements", listing the five keys; for any other tier
\* string both raise a ValueError that names the string and lists the three
\* valid tiers.
C11_FourStageSubConfigurations ==
    /\ (args.fn = "get_detail_config" /\ ret # Pending) =>
          IF args.detail_level \in {"high_level", "detailed", "production_ready"}
          THEN /\ ret.kind = "return"
               /\ DOMAIN ret.value =
                     {"description", "database", "api", "frontend", "deployment"}
               /\ "max_tables" \in DOMAIN ret.value.database
               /\ "max_endpoints" \in DOMAIN ret.value.api
               /\ "max_components" \in DOMAIN ret.value.frontend
               /\ "detail" \in DOMAIN ret.value.deployment
          ELSE /\ ret.kind = "raise"
               /\ ret.error.type = "ValueError"
               /\ ret.error.text = UnknownDetailLevel
               /\ ret.error.value = args.detail_level
               /\ ret.error.valid = <<"high_level", "detailed", "production_ready">>
    /\ (args.fn = "get_component_config" /\ ret # Pending) =>
          IF args.detail_level \notin {"high_level", "detailed", "production_ready"}
          THEN /\ ret.kind = "raise"
               /\ ret.error.text = UnknownDetailLevel
               /\ ret.error.valid = <<"high_level", "detailed", "production_ready">>
          ELSE IF args.component \in {"description", "database", "api",
                                      "frontend", "deployment"}
          THEN /\ ret.kind = "return"
               /\ ret.value = DETAIL_LEVEL_CONFIGS[args.detail_level][args.component]
          ELSE /\ ret.kind = "raise"
               /\ ret.error.text = UnknownComponent
               /\ ret.error.value = args.component
               /\ ret.error.valid =
                     <<"description", "database", "api", "frontend", "deployment">>

C11_Witness ==
    /\ args.fn = "get_detail_config"
    /\ args.detail_level = "production_ready"
    /\ ret.kind = "return"
    /\ "requirements" \notin DOMAIN ret.value
    /\ ret.value.database.max_tables = 30

\* the run of task t ended with a configuration error
ConfigError(t) ==
    \/ exception[t] \in ConfigErrorTexts
    \/ /\ outcome[t].kind = "raised"
       /\ outcome[t].error \in ConfigErrorTexts

\* C12: a run that ends with a configuration error (unknown detail level or
\* unknown stage-configuration key) has issued no model call and built no
\* prompt.
C12_ConfigErrorBeforeAnyCall ==
    \A t \in Tasks :
        ConfigError(t) =>
            /\ calls[t] = <<>>
            /\ prompts[t] = <<>>

C12_Witness ==
    /\ pc[MainTask] = "config_raised"
    /\ user_input[MainTask].detail_level = "aws"
    /\ outcome[MainTask].kind = "raised"
    /\ outcome[MainTask].error = UnknownDetailLevel
    /\ calls[MainTask] = <<>>
    /\ events[MainTask] = <<>>

\* C13: whatever lookups and runs, complete or failed, have happened, the
\* table is the one the module defines, get_detail_config of a valid tier
\* returns that tier's entry, and a second get_detail_config of the tier of
\* a run returns what the run's first call returned.
C13_ResolutionIdempotent ==
    /\ configs = DETAIL_LEVEL_CONFIGS
    /\ \A tier \in DetailLevel :
          get_detail_config(tier) = Return(DETAIL_LEVEL_CONFIGS[tier])
    /\ \A t \in Tasks :
          pc[t] \notin {"idle", "config_raised"} =>
              get_detail_config(user_input[t].detail_level)
                  = Return(detail_config[t])

C13_Witness ==
    /\ run_no[MainTask] = 2
    /\ pc[MainTask] = "done"
    /\ user_input[MainTask].detail_level = "production_ready"
    /\ Len(prompts[MainTask]) = 5
    /\ prompts[MainTask][2].max_tables = 30
    /\ detail_config[MainTask].database.max_tables = 30

\* the last submission of the form returned None
Rejected == args.fn = "render_input_form" /\ ret.value = None

\* C14 (as claimed): a submitted idea text of length 9 is rejected and one of
\* length 10 is accepted.
C14_LengthNineTenBoundary ==
    args.fn = "render_input_form" =>
        /\ Len(args.business_idea) = 9 => ret.value = None
        /\ Len(args.business_idea) = 10 => ret.value # None

\* the code points of the characters of the idea texts that are not ASCII
\* letters: the whitespace of ASCII and the characters outside ASCII
CodePoint ==
    ("\t" :> 9) @@ ("\n" :> 10) @@ (VT :> 11) @@ ("\f" :> 12) @@ ("\r" :> 13)
    @@ (FS :> 28) @@ (GS :> 29) @@ (RS :> 30) @@ (US :> 31) @@ (" " :> 32)
    @@ ("U+0085" :> 133) @@ ("U+00A0" :> 160) @@ ("U+00E9" :> 233)
    @@ ("U+1680" :> 5760) @@ ("U+2000" :> 8192) @@ ("U+2001" :> 8193)
    @@ ("U+2002" :> 8194) @@ ("U+2003" :> 8195) @@ ("U+2004" :> 8196)
    @@ ("U+2005" :> 8197) @@ ("U+2006" :> 8198) @@ ("U+2007" :> 8199)
    @@ ("U+2008" :> 8200) @@ ("U+2009" :> 8201) @@ ("U+200A" :> 8202)
    @@ ("U+200B" :> 8203) @@ ("U+2028" :> 8232) @@ ("U+2029" :> 8233)
    @@ ("U+202F" :> 8239) @@ ("U+205F" :> 8287) @@ ("U+3000" :> 12288)

\* the code points Python documents as whitespace (str.isspace): the ASCII
\* controls 9..13 and 28..31, the space, and the Unicode separators
IsSpaceCodePoint(n) ==
    \/ n \in 9..13
    \/ n \in 28..32
    \/ n \in {133, 160, 5760}
    \/ n \in 8192..8202
    \/ n \in {8232, 8233, 8239, 8287, 12288}

\* character c is whitespace by its code point
IsSpace(c) == c \in DOMAIN CodePoint /\ IsSpaceCodePoint(CodePoint[c])

\* what the form has to return for an idea text: None when fewer than 10
\* characters lie from the first to the last character that is not
\* whitespace, the UserInput of exactly those characters otherwise
ExpectedOfForm(text, d, p) ==
    LET solid == {i \in 1..Len(text) : ~IsSpace(text[i])}
        first == CHOOSE i \in solid : \A j \in solid : i <= j
        last == CHOOSE i \in solid : \A j \in solid : j <= i
    IN IF solid = {} THEN None
       ELSE IF last - first + 1 < 10 THEN None
       ELSE [kind |-> "UserInput",
             business_idea |-> [k \in 1..(last - first + 1) |->
                                    text[first + k - 1]],
             detail_level |-> d,
             deployment_platform |-> p]

\* the form on the idea texts of every kind: each of the 29 whitespace
\* characters after nine characters is rejected and in front of ten
\* characters is accepted and dropped; a character outside ASCII that is not
\* whitespace counts as a character of the idea
FormOnEveryText ==
    /\ Cardinality(Whitespace) = 29
    /\ \A text \in WhitespaceTexts \cup NonAsciiTexts \cup IdeaTexts :
           render_input_form(text, "detailed", "aws")
               = ExpectedOfForm(text, "detailed", "aws")
    /\ \A c \in DOMAIN CodePoint :
           /\ render_input_form(Chars["A CRM app"] \o <<c>>, "detailed", "aws")
                  = None
              <=> IsSpaceCodePoint(CodePoint[c])
           /\ render_input_form(<<c>> \o Chars["A CRM tool"], "detailed",
                                "aws").kind = "UserInput"
           /\ render_input_form(<<c>> \o Chars["A CRM tool"], "detailed",
                                "aws").business_idea = Chars["A CRM tool"]
              <=> IsSpaceCodePoint(CodePoint[c])
    /\ render_input_form(Chars[" A CRM app"], "detailed", "aws") = None
    /\ render_input_form(Chars["A CRM app"] \o <<"U+3000">>, "detailed",
                         "aws") = None
    /\ render_input_form(Chars["A CRM app"] \o <<"U+00E9">>, "detailed",
                         "aws").business_idea
           = Chars["A CRM app"] \o <<"U+00E9">>

\* C14 (amended): the form measures the idea text without its leading and
\* trailing whitespace (the 29 characters of str.isspace): a text is accepted
\* exactly when 10 or more characters lie from its first to its last
\* non-whitespace character (9: rejected, 10: accepted), and the UserInput
\* then holds exactly those characters; the UserInput model itself counts
\* the characters as given (9: rejected, 10: accepted).  A rejected
\* submission starts nothing: the step changes no update, call, prompt,
\* stage or tracker, and a form that has only rejected has no run, no update
\* and no call.
C14_StrippedLengthBoundary ==
    /\ [](/\ FormOnEveryText
          /\ args.fn = "render_input_form" =>
               /\ ret.value = ExpectedOfForm(args.business_idea,
                                             args.detail_level,
                                             args.deployment_platform)
               /\ (Rejected /\ run_no[MainTask] = 0) =>
                     /\ pc[MainTask] = "idle"
                     /\ events[MainTask] = <<>>
                     /\ calls[MainTask] = <<>>
                     /\ prompts[MainTask] = <<>>
               /\ ~Rejected =>
                     /\ ret.value = user_input[MainTask]
                     /\ Len(user_input[MainTask].business_idea) >= 10
                     /\ run_no[MainTask] >= 1
          /\ \A text \in IdeaTexts :
                UserInput(text, "detailed", "aws").kind = "return"
                    <=> Len(text) >= 10)
    /\ [][(Rejected' /\ <<args, ret>>' # <<args, ret>>) =>
             UNCHANGED <<events, calls, prompts, pc, stage, results, run_no,
                         streaming_handler>>]_vars

C14_Witness ==
    /\ args.fn = "render_input_form"
    /\ Len(args.business_idea) = 9
    /\ ret.value = None
    /\ run_no[MainTask] = 0
    /\ events[MainTask] = <<>>
    /\ calls[MainTask] = <<>>

\* C15: the timeline depends on the complexity label alone, compared without
\* regard to case: low gives the 6-8 weeks bucket, medium the 3-4 months
\* bucket, high the 4-6 months bucket, and every other label the 3-4 months
\* bucket.
C15_TimelineBuckets ==
    (args.fn = "_estimate_timeline" /\ ret # Pending) =>
        /\ ret.kind = "return"
        /\ InBucket(ret.value, BucketOf(args.complexity))
        /\ args.complexity \in {"medium", "Medium", "MEDIUM", "extreme", "",
                                "high complexity"}
              => ret.value = "3-4 months for MVP"

C15_Witness ==
    /\ args.fn = "_estimate_timeline"
    /\ args.complexity = "HIGH"
    /\ ret.kind = "return"
    /\ ret.value = "4-6 months for MVP"

\* C16: in a run on a validated input (idea text of 10 or more characters)
\* of tier high_level that gets through its five stages, the technology
\* stack summary of the final document holds the framework returned by the
\* frontend stage and the database service and platform returned by the
\* deployment stage, and its estimated timeline lies in the bucket of the
\* complexity label returned by the requirements stage.
C16_StackSummaryAndTimeline ==
    \A t \in Tasks :
        (/\ Succeeded(t)
         /\ user_input[t].detail_level = "high_level"
         /\ Len(user_input[t].business_idea) >= 10) =>
            LET doc == events[t][11].data
                summary == doc.technology_stack_summary
            IN /\ doc.kind = "TechnicalBlueprint"
               /\ summary.frontend = results[t][4].framework
               /\ summary.database = results[t][5].database_service
               /\ summary.hosting = results[t][5].platform
               /\ InBucket(doc.estimated_timeline,
                           BucketOf(results[t][1].complexity_assessment))

C16_Witness ==
    /\ pc[MainTask] = "done"
    /\ user_input[MainTask].detail_level = "high_level"
    /\ results[MainTask][1].complexity_assessment = "HIGH"
    /\ events[MainTask][11].data.estimated_timeline = "4-6 months for MVP"
    /\ events[MainTask][11].data.technology_stack_summary.frontend = "React"
    /\ events[MainTask][11].data.technology_stack_summary.hosting = "aws"

\* C17: once the completed update of a stage has been emitted, the tracker
\* of the run's generator classifies that stage as completed, in
\* get_phase_status and in the timeline.
C17_CompletedStageReportedCompleted ==
    \A t \in Tasks :
        \A i \in 1..5 :
            CountEvents(events[t], PHASES[i], "completed") = 1 =>
                /\ get_phase_status(streaming_handler[gen[t]], i - 1) = "completed"
                /\ get_phase_timeline(streaming_handler[gen[t]])[i].emoji
                      = "check mark"

\* C18 (as claimed): the error update of a failed run comes immediately
\* after the in_progress update of the stage that failed; it is not the
\* first update and does not follow a completed update.
C18_ErrorFollowsInProgress ==
    \A t \in Tasks :
        Failed(t) =>
            LET n == Len(events[t])
            IN /\ n >= 2
               /\ events[t][n].status = "error"
               /\ events[t][n - 1].status = "in_progress"
               /\ events[t][n - 1].phase = PHASES[stage[t]]

\* C18 (amended): the error update is the last update of a failed run, and
\* what precedes it is one of three things: nothing, when the imports at the
\* head of the try block raise; the in_progress update of the stage that
\* failed, when creating its agent, building its prompt or its model call
\* raises; the completed update of Deployment Plan, when all five stages
\* completed and assembling the final document raises.
C18_ErrorPredecessor ==
    \A t \in Tasks :
        Failed(t) =>
            LET n == Len(events[t])
            IN /\ n >= 1
               /\ events[t][n].status = "error"
               /\ \/ /\ n = 1
                     /\ stage[t] = 0
                     /\ calls[t] = <<>>
                  \/ /\ n = 2 * stage[t]
                     /\ stage[t] \in 1..5
                     /\ events[t][n - 1].status = "in_progress"
                     /\ events[t][n - 1].phase = PHASES[stage[t]]
                     /\ Len(results[t]) = stage[t] - 1
                  \/ /\ n = 11
                     /\ stage[t] = 5
                     /\ events[t][n - 1].status = "completed"
                     /\ events[t][n - 1].phase = "Deployment Plan"
                     /\ Len(results[t]) = 5

C18_Witness ==
    /\ pc[MainTask] = "error_yielded"
    /\ Len(events[MainTask]) = 11
    /\ events[MainTask][10].status = "completed"
    /\ events[MainTask][10].phase = "Deployment Plan"
    /\ events[MainTask][11].status = "error"

\* the stage-result fields of a prompt
ResultFields == {"requirements", "database_schema", "api_design", "frontend_design"}

\* the prompt holds the whole JSON text of the stage output
Includes(prompt, out) ==
    \E f \in ResultFields \cap DOMAIN prompt : prompt[f] = model_dump_json(out)

\* C19 (as claimed): the prompt of every stage i from 2 to 5 includes the
\* result of every stage before i.
C19_AllEarlierResultsInPrompt ==
    \A t \in Tasks :
        \A i \in 2..Len(prompts[t]) :
            \A j \in 1..(i - 1) :
                Includes(prompts[t][i], results[t][j])

\* C19 (amended): the prompt of stage 1 holds the idea text and the tier and
\* no stage result; that of stage 2 the requirements; that of stage 3 the
\* requirements and the database schema; that of stage 4 the requirements
\* and the API design but not the database schema; that of stage 5 the
\* requirements in full and the first 500 characters of the database
\* schema, the API design and the frontend design.  Each prompt of the
\* stages 2 to 5 carries the settings of the tier's configuration for its
\* stage.
C19_PromptInputs ==
    \A t \in Tasks :
        \A i \in 1..Len(prompts[t]) :
            LET prompt == prompts[t][i]
                res == results[t]
                tier == DETAIL_LEVEL_CONFIGS[user_input[t].detail_level]
            IN /\ i = 1 =>
                    /\ prompt.business_idea = user_input[t].business_idea
                    /\ prompt.detail_level = user_input[t].detail_level
                    /\ ResultFields \cap DOMAIN prompt = {}
               /\ i = 2 =>
                    /\ ResultFields \cap DOMAIN prompt = {"requirements"}
                    /\ prompt.requirements = [json |-> res[1]]
                    /\ prompt.max_tables = tier.database.max_tables
               /\ i = 3 =>
                    /\ ResultFields \cap DOMAIN prompt
                          = {"requirements", "database_schema"}
                    /\ prompt.requirements = [json |-> res[1]]
                    /\ prompt.database_schema = [json |-> res[2]]
                    /\ prompt.max_endpoints = tier.api.max_endpoints
               /\ i = 4 =>
                    /\ ResultFields \cap DOMAIN prompt
                          = {"requirements", "api_design"}
                    /\ prompt.requirements = [json |-> res[1]]
                    /\ prompt.api_design = [json |-> res[3]]
                    /\ prompt.max_components = tier.frontend.max_components
               /\ i = 5 =>
                    /\ ResultFields \cap DOMAIN prompt = ResultFields
                    /\ prompt.requirements = [json |-> res[1]]
                    /\ prompt.database_schema = [json |-> res[2], first |-> 500]
                    /\ prompt.api_design = [json |-> res[3], first |-> 500]
                    /\ prompt.frontend_design = [json |-> res[4], first |-> 500]
                    /\ prompt.detail = tier.deployment.detail

C19_Witness ==
    /\ pc[MainTask] = "awaiting"
    /\ Len(prompts[MainTask]) = 5
    /\ "database_schema" \notin DOMAIN prompts[MainTask][4]
    /\ prompts[MainTask][5].frontend_design.first = 500

\* number of model calls the run of task t has issued for stage i
CallsOf(t, i) == Cardinality({n \in 1..Len(calls[t]) : calls[t][n] = i})

\* C20 (as claimed): for every stage a run has started, and is no longer
\* setting up, exactly one model call has been issued.
C20_ExactlyOneCallPerStartedStage ==
    \A t \in Tasks :
        \A i \in 1..5 :
            (/\ CountEvents(events[t], PHASES[i], "in_progress") = 1
             /\ ~(pc[t] = "in_progress_yielded" /\ stage[t] = i)) =>
                CallsOf(t, i) = 1

\* C20 (amended): a run issues at most one model call for a stage, only for
\* a stage whose in_progress update it has emitted, in stage order and at
\* most five in all; a started stage has no call when creating its agent or
\* building its prompt raised.  A failed run has issued the calls of the
\* stages before the one that failed, at most one call for that stage, and
\* none after it.
C20_AtMostOneCallPerStage ==
    \A t \in Tasks :
        /\ Len(calls[t]) <= 5
        /\ \A i \in 1..5 :
              /\ CallsOf(t, i) <= 1
              /\ CallsOf(t, i) <= CountEvents(events[t], PHASES[i], "in_progress")
              /\ CountEvents(events[t], PHASES[i], "completed") <= CallsOf(t, i)
        /\ \A n \in 1..Len(calls[t]) : calls[t][n] = n
        /\ Failed(t) =>
              /\ \A i \in 1..5 : i > stage[t] => CallsOf(t, i) = 0
              /\ \A i \in 1..5 : i < stage[t] => CallsOf(t, i) = 1
              /\ Len(calls[t]) \in {stage[t] - 1, stage[t]} \cap (0..5)

C20_Witness ==
    /\ pc[MainTask] = "raised"
    /\ stage[MainTask] = 3
    /\ calls[MainTask] = <<1, 2>>
    /\ CountEvents(events[MainTask], "API Design", "in_progress") = 1

\* C21 (as claimed): every model call a run has issued for a stage sets a
\* token budget taken from configuration: its request carries max_tokens,
\* equal to the max_tokens of the orchestrator configuration for stage 1 and
\* of the specialist configuration for stages 2 to 5.
C21_EveryCallSetsTokenBudget ==
    \A t \in Tasks :
        \A n \in 1..Len(requests[t]) :
            LET request == requests[t][n]
            IN /\ "max_tokens" \in DOMAIN request.model_settings
               /\ request.model_settings.max_tokens =
                      AgentConfig(calls[t][n]).max_tokens

\* C22: event payloads follow the stage that produced them.  Every
\* in_progress update carries neither data nor diagram; the completed update
\* of stage i carries the output of stage i as data and, for Database
\* Schema, API Design, Frontend Design and Deployment Plan, that output's
\* mermaid_diagram (no diagram for Requirements Analysis); the
\* TechnicalBlueprint is the data of the Complete update, which is the last
\* update of its run, and of no other update.
C22_PayloadsFollowStage ==
    \A t \in Tasks :
        \A n \in 1..Len(events[t]) :
            LET e == events[t][n]
            IN /\ e.status = "in_progress" =>
                      /\ e.data = None
                      /\ e.diagram = NoDiagram
               /\ \A i \in 1..NumStages :
                      (e.phase = PHASES[i] /\ e.status = "completed") =>
                          /\ i <= Len(results[t])
                          /\ e.data = results[t][i]
                          /\ e.data.kind = OutputType(i)
                          /\ e.diagram = IF i = 1 THEN NoDiagram
                                         ELSE results[t][i].mermaid_diagram
               /\ e.data.kind = "TechnicalBlueprint" <=> e.phase = "Complete"
               /\ e.phase = "Complete" =>
                      /\ n = Len(events[t])
                      /\ e.status = "completed"
                      /\ e.diagram = NoDiagram
                      /\ e.data = constructed[t][Len(constructed[t])]

C22_Witness ==
    /\ pc[MainTask] = "complete_yielded"
    /\ Len(events[MainTask]) = 11
    /\ events[MainTask][3].data = None
    /\ events[MainTask][4].data.kind = "DatabaseSchema"
    /\ events[MainTask][4].diagram = "erDiagram"
    /\ events[MainTask][10].diagram = "graph TB"
    /\ events[MainTask][11].data.kind = "TechnicalBlueprint"

\* C23: the substring search of create_update agrees with a direct stage
\* index.  For the phase name the coordinator passes for stage i the first
\* matching PHASES entry is entry i (zero-based i - 1), no earlier entry
\* matches, and both the update's phase_index and the tracker's
\* current_phase_index are i - 1; for "Complete" and "Error" no entry
\* matches, the update's phase_index is 0 and current_phase_index is the one
\* the tracker had before the call.
C23_InferenceAgreesWithIndex ==
    (args.fn = "create_update" /\ ret.kind = "return") =>
        LET h2 == ret.value
            update == LastUpdate(h2)
        IN /\ update.phase = args.phase
           /\ \A i \in 1..NumStages :
                  args.phase = StagePhase(i) =>
                      /\ PHASES[i] = StagePhase(i)
                      /\ \A idx \in MatchingPhases(args.phase) : idx >= i - 1
                      /\ update.phase_index = i - 1
                      /\ h2.current_phase_index = i - 1
           /\ args.phase \in {"Complete", "Error"} =>
                  /\ MatchingPhases(args.phase) = {}
                  /\ update.phase_index = 0
                  /\ h2.current_phase_index = args.h.current_phase_index

C23_Witness ==
    /\ args.fn = "create_update"
    /\ args.phase = "Error"
    /\ args.h.current_phase_index = 3
    /\ ret.kind = "return"
    /\ LastUpdate(ret.value).phase_index = 0
    /\ ret.value.current_phase_index = 3

\* C24: in every reachable state of every tracker (new, reset, after any
\* update of any run, after Complete or Error) current_phase_index is one
\* of 0..4, exactly one stage is classified in_progress, every stage before
\* it completed and every stage after it pending, and
\* get_progress_percentage is one of 0, 20, 40, 60, 80, never 100.
C24_TrackerInvariant ==
    \A g \in Generators :
        LET h == streaming_handler[g]
            in_progress == {i \in 0..(Len(PHASES) - 1) :
                               get_phase_status(h, i) = "in_progress"}
        IN /\ h.current_phase_index \in 0..4
           /\ Cardinality(in_progress) = 1
           /\ \A k \in in_progress :
                  \A i \in 0..(Len(PHASES) - 1) :
                      /\ i < k => get_phase_status(h, i) = "completed"
                      /\ i > k => get_phase_status(h, i) = "pending"
           /\ get_progress_percentage(h) \in {0, 20, 40, 60, 80}
           /\ get_progress_percentage(h) # 100

C24_Witness ==
    /\ pc[MainTask] = "done"
    /\ events[MainTask][Len(events[MainTask])].phase = "Complete"
    /\ streaming_handler[gen[MainTask]].current_phase_index = 4
    /\ get_phase_status(streaming_handler[gen[MainTask]], 4) = "in_progress"
    /\ get_progress_percentage(streaming_handler[gen[MainTask]]) = 80

\* C25: a run whose detail level cannot be resolved before the try block
\* emits no update at all, not even an error update: the exception raised
\* there (the ValueError of get_detail_config when the level's value names
\* no tier) is what the caller gets, the except clause is not entered, no
\* stage is started, and the tracker of the generator has been reset.
C25_TierFailureEmitsNoEvent ==
    \A t \in Tasks :
        (/\ user_input[t] # NoInput
         /\ resolve_detail_config(user_input[t]).kind = "raise") =>
            /\ events[t] = <<>>
            /\ exception[t] = NoException
            /\ outcome[t] =
                   [kind |-> "raised",
                    error |-> resolve_detail_config(user_input[t]).error.text]
            /\ (/\ detail_level_value(user_input[t]).kind = "return"
                /\ get_detail_config(user_input[t].detail_level).kind
                       = "raise")
                   => outcome[t].error = UnknownDetailLevel
            /\ stage[t] = 0
            /\ gb_blueprint[t] = None
            /\ streaming_handler[gen[t]].current_phase_index = 0
            /\ streaming_handler[gen[t]].updates = <<>>

C25_Witness ==
    /\ run_no[MainTask] = 2
    /\ user_input[MainTask].detail_level = "aws"
    /\ detail_level_value(user_input[MainTask]) = Return("aws")
    /\ get_detail_config("aws").kind = "raise"
    /\ outcome[MainTask] = [kind |-> "raised", error |-> UnknownDetailLevel]
    /\ events[MainTask] = <<>>
    /\ streaming_handler[gen[MainTask]] = StreamingHandlerInit

\* C26: for a run on a validated UserInput (detail_level one of the three
\* DetailLevel values) no configuration error occurs: get_detail_config
\* returns the tier's entry, get_component_config returns for each of the
\* four keys the coordinator asks for (database, api, frontend, deployment),
\* the lookup of the stage the run is at returns, and the run never ends
\* with a configuration error, whatever else makes it fail.
C26_NoConfigErrorForValidatedInput ==
    \A t \in Tasks :
        (/\ user_input[t] # NoInput
         /\ user_input[t].detail_level \in DetailLevel) =>
            LET tier == user_input[t].detail_level
            IN /\ get_detail_config(tier).kind = "return"
               /\ {StageComponent(i) : i \in 2..NumStages} =
                      {"database", "api", "frontend", "deployment"}
               /\ \A i \in 2..NumStages :
                      get_component_config(tier, StageComponent(i)).kind = "return"
               /\ ComponentConfig(t).kind = "return"
               /\ pc[t] # "config_raised"
               /\ ~ConfigError(t)

C26_Witness ==
    /\ pc[MainTask] = "raised"
    /\ user_input[MainTask].detail_level = "production_ready"
    /\ stage[MainTask] = 5
    /\ Len(prompts[MainTask]) = 4
    /\ exception[MainTask] \in Causes

\* C27: in the session state of the application, blueprint is not None
\* exactly when the generation started last has emitted its Complete update
\* (it is then the TechnicalBlueprint that update carries): it is None while
\* a new generation is running and after a generation that ended in error.
\* is_generating is False whenever generate_blueprint_with_progress has
\* returned, after success and after failure, and True while a generation
\* has not yet emitted Complete or failed.
C27_BlueprintOnlyAfterComplete ==
    LET n == Len(events[MainTask])
        completed == n > 0 /\ events[MainTask][n].phase = "Complete"
    IN /\ session_state.blueprint # None <=> completed
       /\ completed =>
              /\ session_state.blueprint = events[MainTask][n].data
              /\ session_state.blueprint.kind = "TechnicalBlueprint"
       /\ pc[MainTask] \in {"error_yielded", "raised"} =>
              session_state.blueprint = None
       /\ pc[MainTask] \in {"idle", "done", "raised"} =>
              ~session_state.is_generating
       /\ pc[MainTask] \in {"in_progress_yielded", "awaiting",
                            "completed_yielded", "error_yielded"} =>
              session_state.is_generating

C27_Witness ==
    /\ run_no[MainTask] = 2
    /\ pc[MainTask] = "raised"
    /\ stage[MainTask] = 3
    /\ session_state.blueprint = None
    /\ ~session_state.is_generating
    /\ session_state.current_phase = "Error"

\* the slot of the diagrams dictionary that belongs to stage i
SlotOfStage(i) ==
    CASE i = 2 -> "db"
      [] i = 3 -> "api"
      [] i = 4 -> "frontend"
      [] i = 5 -> "deployment"

\* stage i has emitted its completed update in the current generation
StageCompleted(i) ==
    CountEvents(events[MainTask], PHASES[i], "completed") = 1

\* C28 (as claimed): the diagram of the completed update of Database
\* Schema, API Design, Frontend Architecture or Deployment Plan is stored in
\* that stage's own slot (db, api, frontend, deployment) and in no other,
\* and a slot is not None only if its stage has completed in the current
\* generation.
C28_DiagramStoredInOwnSlot ==
    \A i \in 2..NumStages :
        /\ StageCompleted(i) =>
              session_state.diagrams[SlotOfStage(i)] =
                  results[MainTask][i].mermaid_diagram
        /\ session_state.diagrams[SlotOfStage(i)] # NoDiagram =>
              StageCompleted(i)

\* C28 (amended): a non-empty diagram of the completed update of stage i
\* (2..5) is stored in that stage's own slot and in no other; an empty
\* diagram is not stored, its slot stays None.  A slot is not None only if
\* its stage has completed in the current generation with a non-empty
\* diagram, and it then holds that diagram.
C28_NonEmptyDiagramInOwnSlot ==
    \A i \in 2..NumStages :
        session_state.diagrams[SlotOfStage(i)] =
            IF /\ mode[MainTask] = "app"
               /\ StageCompleted(i)
               /\ results[MainTask][i].mermaid_diagram # ""
            THEN results[MainTask][i].mermaid_diagram
            ELSE NoDiagram

C28_Witness ==
    /\ pc[MainTask] = "done"
    /\ run_no[MainTask] = 2
    /\ results[MainTask][5].mermaid_diagram = ""
    /\ session_state.diagrams =
           [db |-> "erDiagram", api |-> "sequenceDiagram",
            frontend |-> "graph TD", deployment |-> NoDiagram]

\* C29: starting a new generation resets the per-run session state left by
\* the generation before it.  While the generation started last has not
\* failed, the session state holds no error details; and when it has
\* completed, the session state holds its blueprint, its phase, progress and
\* timeline, and no error details of an earlier, failed generation.
C29_NewGenerationResetsRunState ==
    LET n == Len(events[MainTask])
    IN /\ (mode[MainTask] = "app" /\ pc[MainTask] \notin {"error_yielded", "raised"}) =>
              session_state.error_details = None
       /\ pc[MainTask] \in {"complete_yielded", "done"} =>
              /\ session_state.blueprint = events[MainTask][n].data
              /\ session_state.current_phase = "Complete"
              /\ session_state.progress = events[MainTask][n].progress
              /\ session_state.phase_timeline =
                     get_phase_timeline(streaming_handler[gen[MainTask]])
              /\ session_state.error_details = None

\* the Mermaid diagram-type keywords the validation lists
ListedKeywords ==
    {"graph", "erDiagram", "sequenceDiagram", "flowchart", "classDiagram",
     "stateDiagram"}

\* the diagram is empty, None or only whitespace
Blank(diagram) ==
    diagram = NoDiagram \/ strip(Chars[diagram]) = <<>>

\* the diagram contains one of the listed keywords in some letter case
HasListedKeyword(diagram) ==
    \E keyword \in ListedKeywords :
        Contains(lower(Chars[keyword]), lower(Chars[diagram]))

\* C30: validate_mermaid returns False for an empty or blank diagram and
\* True for every non-blank diagram that contains one of the listed
\* diagram-type keywords in any letter case; get_diagram_with_fallback
\* returns the diagram unchanged exactly for those diagrams and the fenced
\* fallback text otherwise.
C30_ValidateMermaidKeywords ==
    /\ (args.fn = "validate_mermaid" /\ ret.kind = "return") =>
           /\ Blank(args.diagram) => ret.value = FALSE
           /\ (~Blank(args.diagram) /\ HasListedKeyword(args.diagram)) =>
                  ret.value = TRUE
    /\ (args.fn = "get_diagram_with_fallback" /\ ret.kind = "return") =>
           IF ~Blank(args.diagram) /\ HasListedKeyword(args.diagram)
           THEN ret.value = [fenced |-> FALSE, text |-> args.diagram]
           ELSE ret.value = [fenced |-> TRUE, text |-> fallback_text]

====
